---------------------------- MODULE Spec2Model ----------------------------
(***************************************************************************)
(* The Anvil region-file codec of map2craft (src/src/anvil_writer.py):     *)
(* BitPacker, Section, Chunk and Region, and the structure placement that  *)
(* uses it (src/src/anvil_place.py: AnvilPlacer).                          *)
(*                                                                         *)
(* Seven state machines share this module:                                 *)
(*   SpecPack   BitPacker.pack / BitPacker.unpack applied to bounded inputs*)
(*   SpecChunk  one Chunk object: set_block, from_nbt, to_nbt              *)
(*   SpecSection one Section object: set_block, get_block_id               *)
(*   Spec       region files and the Region objects opened on them         *)
(*   SpecTwo    two Region objects, each on a file of its own              *)
(*   SpecLarge  Region.save with payloads of 255 and 256 sectors           *)
(*   SpecPlace  AnvilPlacer.run / process_region on empty region files     *)
(***************************************************************************)
EXTENDS Integers, Sequences, FiniteSets, TLC

VARIABLES
    \* ---- SpecPack
    pk_pc,        \* "idle" | "input" | "packed" | "cut" | "done" | "done short"
    pk_n,         \* palette size the indices are drawn for
    pk_indices,   \* the list handed to BitPacker.pack
    pk_longs,     \* the TAG_Long_Array pack returned ("cut": its first words)
    pk_out,       \* the list BitPacker.unpack returned
    \* ---- SpecChunk
    ch,           \* the Chunk object
    ch_src,       \* the tag the Chunk was decoded from (NoTag: Chunk(x, z))
    ch_op,        \* the last call: "Chunk" | "set_block" | "from_nbt" | "reload"
    ch_arg,       \* the arguments of the last set_block
    \* ---- SpecSection
    sc,           \* the Section object
    sc_op,        \* the last call: "Section" | "set_block" | "get_block_id"
    sc_arg,       \* the arguments of the last call
    sc_raised,    \* the last call ended in an exception
    sc_calls,     \* calls made so far
    \* ---- Spec
    disk,         \* the region files, by path
    regions,      \* the Region objects, by identity (NoRegion: not constructed)
    clock,        \* int(time.time())
    rg_last,      \* the last call: "save", "get_chunk", "get_chunk raised",
                  \* "Region raised" or "-" (any other)
    rg_arg,       \* <<rx, rz>> of the last call when it is a get_chunk, else <<>>
    rg_log,       \* the chunk writes of the last save(), in order
    rg_written,   \* by path, the slots a chunk payload has ever been written for
    rg_open,      \* by Region object, the two tables as __init__ left them
    rg_who,       \* the Region object the last call was made on (0: none yet)
    \* ---- SpecPlace
    pl_stored,    \* by region, the chunk tags its file holds, by slot
    pl_region,    \* <<rx, rz>> process_region runs for (<<>>: it does not run)
    pl_chunks,    \* region.chunks of the Region object of process_region
    pl_tasks,     \* the placements of the region still to process
    pl_vals,      \* the blocks of the current placement still to place
    pl_anchor,    \* <<wx, world_y, wz>> of the current placement
    pl_modified,  \* a block was set since process_region began
    pl_last,      \* where the last block of the structure went
    pl_runs       \* process_region calls so far

packVars == <<pk_pc, pk_n, pk_indices, pk_longs, pk_out>>

chunkVars == <<ch, ch_src, ch_op, ch_arg>>

sectionVars == <<sc, sc_op, sc_arg, sc_raised, sc_calls>>

regionVars == <<disk, regions, clock, rg_last, rg_arg, rg_log, rg_written, rg_open,
               rg_who>>

placeVars == <<pl_stored, pl_region, pl_chunks, pl_tasks, pl_vals, pl_anchor,
              pl_modified, pl_last, pl_runs>>

vars == <<pk_pc, pk_n, pk_indices, pk_longs, pk_out, ch, ch_src, ch_op, ch_arg,
          sc, sc_op, sc_arg, sc_raised, sc_calls,
          disk, regions, clock, rg_last, rg_arg, rg_log, rg_written, rg_open, rg_who,
          pl_stored, pl_region, pl_chunks, pl_tasks, pl_vals, pl_anchor,
          pl_modified, pl_last, pl_runs>>

\* the variables of SpecPack while another specification runs
PackIdle ==
    /\ pk_pc = "idle" /\ pk_n = 0 /\ pk_indices = <<>>
    /\ pk_longs = <<>> /\ pk_out = <<>>

\* the variables of SpecSection while another specification runs
SectionIdle ==
    /\ sc = <<>> /\ sc_op = "idle" /\ sc_arg = <<>>
    /\ sc_raised = FALSE /\ sc_calls = 0

\* the variables of SpecPlace while another specification runs
PlaceIdle ==
    /\ pl_stored = <<>> /\ pl_region = <<>> /\ pl_chunks = <<>>
    /\ pl_tasks = <<>> /\ pl_vals = <<>> /\ pl_anchor = <<>>
    /\ pl_modified = FALSE /\ pl_last = <<>> /\ pl_runs = 0

(***************************************************************************)
(* 64-bit words.  TLC's integers are 32 bits wide, so a Python int that    *)
(* holds a packed word (0 .. 2^64-1) is kept as four 16-bit limbs, least   *)
(* significant first, and a signed long of the TAG_Long_Array as its sign  *)
(* and the limbs of its magnitude.                                         *)
(***************************************************************************)
WordBits == 64

LimbBits == WordBits \div 4

LimbBase == 2 ^ LimbBits

U64Zero == <<0, 0, 0, 0>>

\* limb L of idx << s, for 0 <= idx < 2^15
ShiftLimb(idx, s, L) ==
    LET d == s - (LimbBits * L)
    IN IF d >= LimbBits \/ d <= -LimbBits THEN 0
       ELSE IF d >= 0 THEN (idx * (2 ^ d)) % LimbBase
       ELSE idx \div (2 ^ (-d))

\* idx << s; no bit at or above 2^64 occurs for idx < 2^bits_per_block and
\* s <= (blocks_per_long - 1) * bits_per_block
ShiftLeft(idx, s) ==
    <<ShiftLimb(idx, s, 0), ShiftLimb(idx, s, 1), ShiftLimb(idx, s, 2), ShiftLimb(idx, s, 3)>>

RECURSIVE OrInt(_, _)
\* a | b for non-negative ints
OrInt(a, b) ==
    IF a = 0 THEN b
    ELSE IF b = 0 THEN a
    ELSE (IF a % 2 = 1 \/ b % 2 = 1 THEN 1 ELSE 0) + 2 * OrInt(a \div 2, b \div 2)

\* a | b
BitOr(a, b) ==
    <<OrInt(a[1], b[1]), OrInt(a[2], b[2]), OrInt(a[3], b[3]), OrInt(a[4], b[4])>>

RECURSIVE ExtractFrom(_, _, _, _)
\* the part of (u >> s) % 2^bits that limbs L, L+1, .. give; sh is the place
\* of limb L's bit 0 in the result
ExtractFrom(u, L, sh, bits) ==
    IF L >= 4 \/ sh >= bits THEN 0
    ELSE (IF sh < 0 THEN (u[L + 1] \div (2 ^ (-sh))) % (2 ^ bits)
          ELSE (u[L + 1] % (2 ^ (bits - sh))) * (2 ^ sh))
         + ExtractFrom(u, L + 1, sh + LimbBits, bits)

\* (u >> s) & ((1 << bits) - 1), for bits < 30
ShiftRightMask(u, s, bits) ==
    ExtractFrom(u, s \div LimbBits, -(s % LimbBits), bits) % (2 ^ bits)

\* 2^64 - u for 0 < u < 2^64, limb by limb with the carry of (~u) + 1
Complement64(u) ==
    LET t1 == (LimbBase - 1 - u[1]) + 1
        t2 == (LimbBase - 1 - u[2]) + (t1 \div LimbBase)
        t3 == (LimbBase - 1 - u[3]) + (t2 \div LimbBase)
        t4 == (LimbBase - 1 - u[4]) + (t3 \div LimbBase)
    IN <<t1 % LimbBase, t2 % LimbBase, t3 % LimbBase, t4 % LimbBase>>

\* a Python int in -2^63 .. 2^64-1 as held by a TAG_Long_Array element
LongZero == [neg |-> FALSE, mag |-> U64Zero]

\* lines 43-44 / 53-54: if current_long_val >= 2**63: current_long_val -= 2**64
ToSigned(u) ==
    IF u[4] >= LimbBase \div 2 THEN [neg |-> TRUE, mag |-> Complement64(u)]
    ELSE [neg |-> FALSE, mag |-> u]

\* ToUnsigned without the sign fix: the magnitude read as the word
ToUnsigned_NoFix(l) == l.mag

\* lines 77-78 / 94-95: if current_long_val < 0: current_long_val += 2**64
ToUnsigned(l) == IF l.neg THEN Complement64(l.mag) ELSE l.mag

CeilDiv(a, b) == (a + b - 1) \div b

(***************************************************************************)
(* BitPacker                                                               *)
(***************************************************************************)
MinBitsPerBlock == 4

RECURSIVE BitLength(_)
\* int.bit_length()
BitLength(v) == IF v <= 0 THEN 0 ELSE 1 + BitLength(v \div 2)

\* BitPacker.min_bits
min_bits(max_value) ==
    IF BitLength(max_value) > MinBitsPerBlock THEN BitLength(max_value)
    ELSE MinBitsPerBlock

\* FromNbtBits taken from len(palette) instead of len(palette) - 1
FromNbtBits_OfLen(palette_len) == min_bits(palette_len)

\* line 153: the width Section.from_nbt unpacks with
FromNbtBits(palette_len) == min_bits(palette_len - 1)

\* line 205: the width Section.to_nbt packs with
ToNbtBits(palette_len) == min_bits(palette_len - 1)

\* the clamp at the head of pack and unpack
ClampBits(bits_per_block) ==
    IF bits_per_block < MinBitsPerBlock THEN MinBitsPerBlock ELSE bits_per_block

\* PackWordFull with > for >=: one more index goes into a full word
PackWordFull_OneLate(blocks_in_current_long, blocks_per_long) ==
    blocks_in_current_long > blocks_per_long

\* the flush test of pack's loop (line 41)
PackWordFull(blocks_in_current_long, blocks_per_long) ==
    blocks_in_current_long >= blocks_per_long

RECURSIVE pack_loop(_, _, _, _, _, _, _)
\* the for loop of pack (lines 34-49) from position i on, then lines 52-55
pack_loop(indices, i, bpb, longs, current_long_idx, current_long_val, blocks_in_current_long) ==
    IF i > Len(indices)
    THEN IF blocks_in_current_long > 0
         THEN [longs EXCEPT ![current_long_idx + 1] = ToSigned(current_long_val)]
         ELSE longs
    ELSE LET shifted_val == ShiftLeft(indices[i], blocks_in_current_long * bpb)
             val == BitOr(current_long_val, shifted_val)
             n   == blocks_in_current_long + 1
         IN IF PackWordFull(n, WordBits \div bpb)
            THEN pack_loop(indices, i + 1, bpb,
                           [longs EXCEPT ![current_long_idx + 1] = ToSigned(val)],
                           current_long_idx + 1, U64Zero, 0)
            ELSE pack_loop(indices, i + 1, bpb, longs, current_long_idx, val, n)

\* BitPacker.pack
pack(indices, bits_per_block) ==
    LET bpb == ClampBits(bits_per_block)
        blocks_per_long == WordBits \div bpb
        long_count == CeilDiv(Len(indices), blocks_per_long)
    IN pack_loop(indices, 1, bpb, [k \in 1 .. long_count |-> LongZero],
                 0, U64Zero, 0)

\* LoadLong that reads the last word again where a word is missing
LoadLong_LastAgain(longs, current_long_idx) ==
    IF Len(longs) = 0 THEN U64Zero
    ELSE IF current_long_idx < Len(longs) THEN ToUnsigned(longs[current_long_idx + 1])
    ELSE ToUnsigned(longs[Len(longs)])

\* the long unpack's loop loads (lines 73, 77-78, 92-97)
LoadLong(longs, current_long_idx) ==
    IF current_long_idx < Len(longs) THEN ToUnsigned(longs[current_long_idx + 1])
    ELSE U64Zero

RECURSIVE unpack_loop(_, _, _, _, _, _, _)
\* the for loop of unpack (lines 80-97) with `left` iterations to go
unpack_loop(longs, bpb, left, indices, current_long_idx, current_long_val, blocks_in_current_long) ==
    IF left = 0 THEN indices
    ELSE LET val == ShiftRightMask(current_long_val,
                                   blocks_in_current_long * bpb, bpb)
             n   == blocks_in_current_long + 1
         IN IF n >= WordBits \div bpb
            THEN unpack_loop(longs, bpb, left - 1, Append(indices, val),
                             current_long_idx + 1,
                             LoadLong(longs, current_long_idx + 1), 0)
            ELSE unpack_loop(longs, bpb, left - 1, Append(indices, val),
                             current_long_idx, current_long_val, n)

\* BitPacker.unpack
unpack(longs, bits_per_block, count) ==
    LET bpb == ClampBits(bits_per_block)
    IN unpack_loop(longs, bpb, count, <<>>, 0, LoadLong(longs, 0), 0)

(***************************************************************************)
(* Block descriptors (the TAG_Compound handed to set_block and kept in the *)
(* palette): a record with "Name" and, optionally, "Properties", the       *)
(* latter a list of <<name, value>> pairs in the compound's own order.     *)
(***************************************************************************)
AIR == "minecraft:air"

\* the order sorted() gives the property names the model uses
PropOrder == <<"a", "b">>

HasKey(tag, k) == k \in DOMAIN tag

PropKeys(p_dict) == {p_dict[i][1] : i \in 1 .. Len(p_dict)}

PropValue(p_dict, k) ==
    LET i == CHOOSE j \in 1 .. Len(p_dict) : p_dict[j][1] = k IN p_dict[i][2]

\* SortedProps without sorted(): the pairs in the compound's own order
SortedProps_Unsorted(p_dict) == p_dict

\* ",".join(f"{k}={p_dict[k]}" for k in sorted(p_dict.keys()))
SortedProps(p_dict) ==
    LET ks == SelectSeq(PropOrder, LAMBDA k : k \in PropKeys(p_dict))
    IN [j \in 1 .. Len(ks) |-> <<ks[j], PropValue(p_dict, ks[j])>>]

\* the props string of lines 136-139 and 167-170
PropsOf(block_data) ==
    IF HasKey(block_data, "Properties") THEN SortedProps(block_data.Properties)
    ELSE <<>>

\* f"{name}[{props}]" (lines 141, 172): a string that ends in "]"
PaletteKey(block_data) ==
    [name |-> block_data.Name, fmt |-> "name[props]", props |-> PropsOf(block_data)]

\* the key Section.__init__ enters for entry 0 (line 116): the bare name
InitialAirKey == [name |-> AIR, fmt |-> "name", props |-> <<>>]

(***************************************************************************)
(* Section.  blocks is the list of 4096 palette indices, kept as the       *)
(* function from the flat indices whose entry is not 0 to their entries;   *)
(* every other entry of the list is 0.                                     *)
(***************************************************************************)
SectionVolume == 4096

GetCell(blocks, flat) == IF flat \in DOMAIN blocks THEN blocks[flat] ELSE 0

SetCell(blocks, flat, v) ==
    [f \in (IF v = 0 THEN DOMAIN blocks \ {flat} ELSE DOMAIN blocks \cup {flat}) |->
        IF f = flat THEN v ELSE blocks[f]]

NoBlocks == [f \in {} |-> 0]

\* Section.__init__
NewSection(y_index) ==
    [y_index     |-> y_index,
     palette     |-> <<[Name |-> AIR]>>,
     palette_map |-> [k \in {InitialAirKey} |-> 0],
     blocks      |-> NoBlocks]

\* flat index = (y * 256) + (z * 16) + x
FlatIndex(x, y, z) == (y * 256) + (z * 16) + x

\* lines 174-180: the palette lookup of set_block
KeyKnown(palette_key, palette_map) == palette_key \in DOMAIN palette_map

\* self.blocks[flat_index] raises IndexError: a Python list of 4096 entries
\* takes the indices -4096 .. 4095
ListIndexRaises(flat_index) ==
    flat_index < -SectionVolume \/ flat_index >= SectionVolume

\* the entry self.blocks[flat_index] names: a negative index counts from the end
ListIndex(flat_index) ==
    IF flat_index < 0 THEN flat_index + SectionVolume ELSE flat_index

\* Section.set_block raises (line 184, after the palette lookup of lines 174-180)
Section_set_block_raises(x, y, z) == ListIndexRaises(FlatIndex(x, y, z))

\* Section.set_block: the Section as the call leaves it, raised or not
Section_set_block(self, x, y, z, block_data) ==
    LET palette_key == PaletteKey(block_data)
        known == KeyKnown(palette_key, self.palette_map)
        index == IF known THEN self.palette_map[palette_key] ELSE Len(self.palette)
        flat_index == FlatIndex(x, y, z)
    IN [self EXCEPT
          !.palette = IF known THEN @ ELSE Append(@, block_data),
          !.palette_map = IF known THEN @
                          ELSE [k \in DOMAIN @ \cup {palette_key} |->
                                   IF k = palette_key THEN index ELSE @[k]],
          !.blocks = IF ListIndexRaises(flat_index) THEN @
                     ELSE SetCell(@, ListIndex(flat_index), index)]

\* Section.get_block_id raises (line 191)
Section_get_block_id_raises(x, y, z) == ListIndexRaises(FlatIndex(x, y, z))

\* Section.get_block_id when it does not raise
Section_get_block_id(self, x, y, z) ==
    GetCell(self.blocks, ListIndex(FlatIndex(x, y, z)))

(***************************************************************************)
(* The packed array of a section tag.  A TAG_Long_Array of a section is    *)
(* kept as its length and the words that are not 0.  pack and unpack work  *)
(* word by word (their loops start every word from a zero accumulator,     *)
(* lines 46-49 and 89-97), so word w of pack(blocks) is pack of the        *)
(* entries w*blocks_per_long .. of blocks, and entry i of unpack(longs) is *)
(* read from word i \div blocks_per_long alone, or is 0 past the last word.*)
(***************************************************************************)
NoLongs == [len |-> 0, nz |-> [w \in {} |-> LongZero]]

\* BitPacker.pack(self.blocks, bits) for the 4096 entries of a section
PackBlocks(blocks, bits) ==
    LET bpl == WordBits \div ClampBits(bits)
        touched == {f \div bpl : f \in DOMAIN blocks}
        words == [w \in touched |->
                     pack([j \in 1 .. bpl |-> GetCell(blocks, w * bpl + j - 1)], bits)[1]]
    IN [len |-> CeilDiv(SectionVolume, bpl),
        nz  |-> [w \in {v \in touched : words[v] # LongZero} |-> words[w]]]

\* BitPacker.unpack(longs_list, bits) with the default count of 4096
UnpackBlocks(data, bits) ==
    LET bpl == WordBits \div ClampBits(bits)
        ws == {w \in DOMAIN data.nz : w < data.len /\ w * bpl < SectionVolume}
        vals == [w \in ws |-> unpack(<<data.nz[w]>>, bits, bpl)]
        cand == {f \in UNION {(w * bpl) .. (w * bpl + bpl - 1) : w \in ws} :
                    f < SectionVolume}
    IN [f \in {c \in cand : vals[c \div bpl][(c % bpl) + 1] # 0} |->
           vals[f \div bpl][(f % bpl) + 1]]

\* Section.from_nbt raises when a palette entry has no "Name" (line 135)
Section_from_nbt_raises(tag) ==
    /\ HasKey(tag, "block_states")
    /\ HasKey(tag.block_states, "palette")
    /\ \E i \in 1 .. Len(tag.block_states.palette) :
          ~HasKey(tag.block_states.palette[i], "Name")

\* the palette_map the loop of lines 131-142 builds: a later entry with the
\* same key replaces the index of an earlier one
PaletteMapOf(p_list) ==
    [k \in {PaletteKey(p_list[i]) : i \in 1 .. Len(p_list)} |->
        (CHOOSE i \in 1 .. Len(p_list) :
            /\ PaletteKey(p_list[i]) = k
            /\ \A j \in (i + 1) .. Len(p_list) : PaletteKey(p_list[j]) # k) - 1]

\* Section.from_nbt for a tag it does not raise on
Section_from_nbt(tag) ==
    LET fresh == NewSection(tag.Y)
    IN IF ~HasKey(tag, "block_states") THEN fresh
       ELSE LET bs == tag.block_states
                withPalette ==
                    IF HasKey(bs, "palette")
                    THEN [fresh EXCEPT !.palette = bs.palette,
                                       !.palette_map = PaletteMapOf(bs.palette)]
                    ELSE fresh
            IN IF HasKey(bs, "data")
               THEN [withPalette EXCEPT
                        !.blocks = UnpackBlocks(bs.data,
                                       FromNbtBits(Len(withPalette.palette)))]
               ELSE [withPalette EXCEPT !.blocks = NoBlocks]

\* EmitsData with >= for >: a one-entry palette gets a packed array too
EmitsData_FromOneEntry(self) == Len(self.palette) >= 1

\* line 204: the packed array is written
EmitsData(self) == Len(self.palette) > 1

\* Section.to_nbt
Section_to_nbt(self) ==
    LET palette_only == [palette |-> self.palette]
    IN [Y |-> self.y_index,
        block_states |->
            IF EmitsData(self)
            THEN [palette |-> self.palette,
                  data |-> PackBlocks(self.blocks, ToNbtBits(Len(self.palette)))]
            ELSE palette_only]

(***************************************************************************)
(* Chunk.  sections is the dict from section-Y to Section; a chunk tag is  *)
(* a record whose fields are the keys of the TAG_Compound.                 *)
(***************************************************************************)
DefaultDataVersion == 3465

FloorY == -64

NoTags == [k \in {} |-> 0]

\* Chunk.__init__
NewChunk(x, z) ==
    [x |-> x, z |-> z, sections |-> [y \in {} |-> 0],
     data_version |-> DefaultDataVersion, status |-> "minecraft:full",
     other_tags |-> NoTags]

PutSection(sections, y_idx, section) ==
    [y \in DOMAIN sections \cup {y_idx} |-> IF y = y_idx THEN section ELSE sections[y]]

\* Chunk.get_section: the section, created when absent
Chunk_get_section(self, y_idx) ==
    IF y_idx \in DOMAIN self.sections THEN self.sections[y_idx] ELSE NewSection(y_idx)

\* SectionYOf that rounds toward zero, as int(y / 16) does
SectionYOf_TowardZero(y) == IF y < 0 THEN -((-y) \div 16) ELSE y \div 16

\* line 232: section_y = y >> 4, the floor of y / 16
SectionYOf(y) == y \div 16

\* Chunk.set_block: section_y = y >> 4, local_y = y & 15
Chunk_set_block(self, x, y, z, block_data) ==
    LET section_y == SectionYOf(y)
        local_y == y % 16
        section == Chunk_get_section(self, section_y)
    IN [self EXCEPT !.sections =
            PutSection(@, section_y, Section_set_block(section, x, local_y, z, block_data))]

RECURSIVE SortAsc(_)
\* sorted(keys)
SortAsc(S) ==
    IF S = {} THEN <<>>
    ELSE LET m == CHOOSE v \in S : \A w \in S : v <= w
         IN <<m>> \o SortAsc(S \ {m})

\* SortDesc without reverse=True: the sections from the lowest up
SortDesc_Ascending(S) == SortAsc(S)

RECURSIVE SortDesc(_)
\* sorted(keys, reverse=True)
SortDesc(S) ==
    IF S = {} THEN <<>>
    ELSE LET m == CHOOSE v \in S : \A w \in S : w <= v
         IN <<m>> \o SortDesc(S \ {m})

\* lines 252-260: the cell holds a block that is not air
CellIsGround(section, x, y, z) ==
    LET block_idx == Section_get_block_id(section, x, y, z)
    IN /\ block_idx < Len(section.palette)
       /\ section.palette[block_idx + 1].Name # AIR

RECURSIVE highest_loop(_, _, _, _, _, _)
\* the two loops of get_highest_block from section order[i], local y on
highest_loop(self, order, i, y, x, z) ==
    IF i > Len(order) THEN FloorY
    ELSE IF y < 0 THEN highest_loop(self, order, i + 1, 15, x, z)
    ELSE IF CellIsGround(self.sections[order[i]], x, y, z)
         THEN (order[i] * 16) + y
         ELSE highest_loop(self, order, i, y - 1, x, z)

\* Chunk.get_highest_block
Chunk_get_highest_block(self, x, z) ==
    highest_loop(self, SortDesc(DOMAIN self.sections), 1, 15, x, z)

ManagedKeys == {"DataVersion", "Status", "xPos", "zPos", "yPos", "sections"}

\* MergeTags with the bag first: an entry of other_tags replaces the typed field
MergeTags_BagFirst(root, other_tags) ==
    [k \in DOMAIN root \cup DOMAIN other_tags |->
        IF k \in DOMAIN other_tags THEN other_tags[k] ELSE root[k]]

\* lines 283-285: an entry of other_tags is added when root has no such key
MergeTags(root, other_tags) ==
    [k \in DOMAIN root \cup DOMAIN other_tags |->
        IF k \in DOMAIN root THEN root[k] ELSE other_tags[k]]

\* Chunk.to_nbt
Chunk_to_nbt(self) ==
    LET order == SortAsc(DOMAIN self.sections)
        root == [DataVersion |-> self.data_version,
                 Status |-> self.status,
                 xPos |-> self.x,
                 zPos |-> self.z,
                 yPos |-> FloorY,
                 sections |-> [i \in 1 .. Len(order) |->
                                  Section_to_nbt(self.sections[order[i]])]]
    IN MergeTags(root, self.other_tags)

\* line 303: the sections Chunk.from_nbt tries to decode
SectionWanted(section_tag) ==
    HasKey(section_tag, "Y") /\ HasKey(section_tag, "block_states")

RECURSIVE sections_loop(_, _, _)
\* lines 302-310: a section that fails to decode is printed and left out
sections_loop(tags, i, sections) ==
    IF i > Len(tags) THEN sections
    ELSE IF SectionWanted(tags[i]) /\ ~Section_from_nbt_raises(tags[i])
         THEN LET section == Section_from_nbt(tags[i])
              IN sections_loop(tags, i + 1, PutSection(sections, section.y_index, section))
         ELSE sections_loop(tags, i + 1, sections)

\* Chunk.from_nbt (tag holds xPos and zPos)
Chunk_from_nbt(tag) ==
    LET chunk == NewChunk(tag.xPos, tag.zPos)
    IN [chunk EXCEPT
          !.data_version = IF HasKey(tag, "DataVersion") THEN tag.DataVersion ELSE @,
          !.status = IF HasKey(tag, "Status") THEN tag.Status ELSE @,
          !.sections = IF HasKey(tag, "sections")
                       THEN sections_loop(tag.sections, 1, @) ELSE @,
          !.other_tags = [k \in DOMAIN tag \ ManagedKeys |-> tag[k]]]

(***************************************************************************)
(* Region.  A region file is its length in bytes, its two header tables    *)
(* and its sectors from sector 2 on.  The tables are kept for the slots of *)
(* the chunks the model fetches; every other slot stays 0.  The block      *)
(* content of a cached chunk is summed up by clen, the length of its       *)
(* zlib-compressed NBT, which set_block calls change.  A sector that holds *)
(* payload bytes is [chunk, n, part]: part `part` of the n-sector payload  *)
(* of `chunk`; a sector absent from `sec` holds zeros or lies past the end *)
(* of the file.                                                            *)
(***************************************************************************)
SECTOR_SIZE == 4096

HeaderLen == 8192

\* region-local chunk coordinates get_chunk is called with
ChunkCoords == {<<0, 0>>, <<31, 31>>}

\* index = (rx & 31) + (rz & 31) * 32
SlotOf(rx, rz) == (rx % 32) + (rz % 32) * 32

Slots == {SlotOf(c[1], c[2]) : c \in ChunkCoords}

Paths == {"r.0.0.mca"}

\* compressed lengths set_block calls bring a chunk's NBT to: with the 5-byte
\* header one sector to the last byte, and one byte more
ChunkLens == {4091, 4092}

\* len(zlib.compress(raw_data)) of Chunk(rx, rz) with no section
EmptyChunkLen == 100

ZeroTable == [i \in Slots |-> 0]

NoSectors == [k \in {} |-> 0]

NoFile == [exists |-> FALSE, len |-> 0, loc |-> ZeroTable, ts |-> ZeroTable,
           sec |-> NoSectors]

\* a file of len zero bytes
ZeroFile(len) == [exists |-> TRUE, len |-> len, loc |-> ZeroTable, ts |-> ZeroTable,
                  sec |-> NoSectors]

NoRegion == [none |-> TRUE]

NoChunk == [none |-> TRUE]

\* offset_info >> 8
OffsetOf(entry) == entry \div 256

\* offset_info & 0xFF
CountOf(entry) == entry % 256

\* (new_offset << 8) | sectors_needed
MakeEntry(new_offset, sectors_needed) == OrInt(new_offset * 256, sectors_needed)

\* the sectors an entry covers
SectorsOf(entry) == OffsetOf(entry) .. (OffsetOf(entry) + CountOf(entry) - 1)

\* Region._read_header: the sectors marked as used
UsedSectors(loc) ==
    {0, 1} \cup UNION {SectorsOf(loc[i]) :
                          i \in {j \in DOMAIN loc : OffsetOf(loc[j]) > 0 /\ CountOf(loc[j]) > 0}}

\* Region._read_header raises IndexError at loc_data[i*4+3] (line 345) when
\* f.read(4096) returns fewer than 4096 bytes; a short ts_data reads as zeros
Region_init_raises(file) == file.exists /\ file.len < SECTOR_SIZE

\* Region_init without _read_header: the tables stay [0] * 1024
Region_init_TablesNotRead(file_path, file) ==
    [file_path    |-> file_path,
     locations    |-> ZeroTable,
     timestamps   |-> ZeroTable,
     used_sectors |-> {0, 1},
     chunks       |-> [i \in {} |-> 0],
     order        |-> <<>>,
     file_exists  |-> file.exists]

\* Region.__init__ (with _read_header when the file exists and is read)
Region_init(file_path, file) ==
    [file_path    |-> file_path,
     locations    |-> IF file.exists THEN file.loc ELSE ZeroTable,
     timestamps   |-> IF file.exists THEN file.ts ELSE ZeroTable,
     used_sectors |-> IF file.exists THEN UsedSectors(file.loc) ELSE {0, 1},
     chunks       |-> [i \in {} |-> 0],
     order        |-> <<>>,
     file_exists  |-> file.exists]

\* the chunk of the region model: Chunk(rx, rz) and what set_block made of it
RegionChunk(x, z, clen) == [x |-> x, z |-> z, clen |-> clen]

\* MethodKnown that takes every compression byte
MethodKnown_Any(compression) == TRUE

\* lines 394-400: 2 is zlib, 1 is gzip, anything else raises ValueError
MethodKnown(compression) == compression \in {1, 2}

\* lines 385-400 and 422-457: read the payload at `offset`, decompress, parse.
\* The read is of the length the first sector states; zlib fails unless the
\* sectors read are the parts of one payload, in order
PayloadReadable(file, offset) ==
    /\ offset \in DOMAIN file.sec
    /\ MethodKnown(file.sec[offset].method)
    /\ file.sec[offset].part = 1
    /\ \A k \in 1 .. file.sec[offset].n :
          /\ (offset + k - 1) \in DOMAIN file.sec
          /\ file.sec[offset + k - 1] = [file.sec[offset] EXCEPT !.part = k]

\* line 376: a new chunk is made when the entry is 0 or the file did not exist
IsNewChunk(self, index) ==
    OffsetOf(self.locations[index]) = 0 \/ ~self.file_exists

\* self.chunks[index] = chunk
CacheChunk(self, index, chunk) ==
    [self EXCEPT
        !.chunks = [i \in DOMAIN @ \cup {index} |-> IF i = index THEN chunk ELSE @[i]],
        !.order = IF index \in DOMAIN self.chunks THEN @ ELSE Append(@, index)]

\* CoordsInRange that takes every pair
CoordsInRange_Any(rx, rz) == TRUE

\* line 362
CoordsInRange(rx, rz) == (0 <= rx /\ rx < 32) /\ (0 <= rz /\ rz < 32)

\* what a get_chunk that raises leaves behind
Raised(self) == [raised |-> TRUE, self |-> self, chunk |-> NoChunk]

\* what a get_chunk that returns leaves behind, and the Chunk it returns
Returned(self, index) == [raised |-> FALSE, self |-> self, chunk |-> self.chunks[index]]

\* Region.get_chunk: [raised, self, chunk] with self as it is after the call
Region_get_chunk(self, file, rx, rz) ==
    LET index == SlotOf(rx, rz)
        offset == OffsetOf(self.locations[index])
    IN IF ~CoordsInRange(rx, rz) THEN Raised(self)
       ELSE IF index \in DOMAIN self.chunks THEN Returned(self, index)
       ELSE IF IsNewChunk(self, index)
            THEN Returned(CacheChunk(self, index, RegionChunk(rx, rz, EmptyChunkLen)), index)
       ELSE IF PayloadReadable(file, offset)
            THEN Returned(CacheChunk(self, index, file.sec[offset].chunk), index)
       ELSE Raised(self)

\* lines 477-480: the file save() goes on to open "r+b"
FileAtSave(self, file) ==
    IF ~self.file_exists
    THEN [exists |-> TRUE, len |-> HeaderLen, loc |-> ZeroTable, ts |-> ZeroTable,
          sec |-> NoSectors]
    ELSE file

\* line 503
SectorsNeeded(total_len) == (total_len + SECTOR_SIZE - 1) \div SECTOR_SIZE

\* FitsOldSpot with > for >=: an unchanged sector count no longer fits
FitsOldSpot_Strict(old_offset, old_sector_count, sectors_needed) ==
    old_offset > 0 /\ old_sector_count > sectors_needed

\* line 517: the payload fits in the old spot
FitsOldSpot(old_offset, old_sector_count, sectors_needed) ==
    old_offset > 0 /\ old_sector_count >= sectors_needed

\* lines 525-534: the end of the file, padded to a sector boundary
AlignedEnd(file_end) ==
    IF file_end % SECTOR_SIZE # 0
    THEN file_end + (SECTOR_SIZE - (file_end % SECTOR_SIZE))
    ELSE file_end

\* line 550: the sector count the location entry gets
RecordedCount(old_sector_count, sectors_needed) == sectors_needed

\* lines 540-547: the payload and its padding written at new_offset
WritePayload(file, new_offset, sectors_needed, chunk, aligned_end) ==
    LET written == new_offset .. (new_offset + sectors_needed - 1)
        end == (new_offset + sectors_needed) * SECTOR_SIZE
    IN [file EXCEPT
          !.sec = [k \in DOMAIN @ \cup written |->
                      IF k \in written
                      THEN [chunk |-> chunk, n |-> sectors_needed,
                            part |-> k - new_offset + 1, method |-> 2]
                      ELSE @[k]],
          !.len = IF end > aligned_end THEN end ELSE aligned_end]

RECURSIVE save_loop(_, _, _, _, _)
\* lines 484-551 from the i-th cached chunk on: [self, file, log]
save_loop(self, file, i, now, log) ==
    IF i > Len(self.order) THEN [self |-> self, file |-> file, log |-> log]
    ELSE LET index == self.order[i]
             chunk == self.chunks[index]
             total_len == chunk.clen + 5
             sectors_needed == SectorsNeeded(total_len)
             old_offset == OffsetOf(self.locations[index])
             old_sector_count == CountOf(self.locations[index])
             fits == FitsOldSpot(old_offset, old_sector_count, sectors_needed)
             aligned_end == IF fits THEN file.len ELSE AlignedEnd(file.len)
             new_offset == IF fits THEN old_offset ELSE aligned_end \div SECTOR_SIZE
             entry == MakeEntry(new_offset,
                                RecordedCount(old_sector_count, sectors_needed))
         IN save_loop(
                [self EXCEPT !.locations[index] = entry, !.timestamps[index] = now],
                WritePayload(file, new_offset, sectors_needed, chunk, aligned_end),
                i + 1, now,
                Append(log, [index |-> index,
                             old_entry |-> self.locations[index],
                             sectors_needed |-> sectors_needed,
                             file_end |-> file.len,
                             new_offset |-> new_offset,
                             entry |-> entry,
                             table |-> self.locations]))

\* WriteHeader that writes the entries of the cached chunks alone and leaves
\* every other slot of the file's tables as the file has it
WriteHeader_CachedSlotsOnly(self, file) ==
    [file EXCEPT !.loc = [i \in DOMAIN @ |-> IF i \in DOMAIN self.chunks
                                              THEN self.locations[i] ELSE @[i]],
                 !.ts = [i \in DOMAIN @ |-> IF i \in DOMAIN self.chunks
                                             THEN self.timestamps[i] ELSE @[i]],
                 !.sec = [k \in {j \in DOMAIN @ : j * SECTOR_SIZE >= HeaderLen} |-> @[k]],
                 !.len = IF @ < HeaderLen THEN HeaderLen ELSE @]

\* WriteHeader that writes nothing: the file keeps the tables it had
WriteHeader_Skipped(self, file) == file

\* lines 554-564: the two tables written over the first 8192 bytes
WriteHeader(self, file) ==
    [file EXCEPT !.loc = self.locations,
                 !.ts = self.timestamps,
                 !.sec = [k \in {j \in DOMAIN @ : j * SECTOR_SIZE >= HeaderLen} |-> @[k]],
                 !.len = IF @ < HeaderLen THEN HeaderLen ELSE @]

\* Region.save: the chunk writes, then the two header tables
Region_save(self, file, now) ==
    LET done == save_loop(self, FileAtSave(self, file), 1, now, <<>>)
    IN [self |-> done.self,
        file |-> WriteHeader(done.self, done.file),
        log  |-> done.log]

\* the variables of Spec while another specification runs
RegionIdle ==
    /\ disk = [p \in Paths |-> NoFile]
    /\ regions = <<>>
    /\ clock = 0
    /\ rg_last = "idle"
    /\ rg_arg = <<>>
    /\ rg_log = <<>>
    /\ rg_written = <<>>
    /\ rg_open = <<>>
    /\ rg_who = 0

(***************************************************************************)
(* SpecChunk: one Chunk object.  It starts as Chunk(0, 0); set_block sets  *)
(* one of a few cells to one of a few descriptors, from_nbt replaces the   *)
(* object by the decoding of a stored chunk tag, and reload replaces it by *)
(* the decoding of its own to_nbt (what save and a later get_chunk do).    *)
(***************************************************************************)
Air == [Name |-> AIR]

Stone == [Name |-> "minecraft:stone"]

StairsAB == [Name |-> "minecraft:oak_stairs", Properties |-> <<<<"a", "1">>, <<"b", "2">>>>]

StairsBA == [Name |-> "minecraft:oak_stairs", Properties |-> <<<<"b", "2">>, <<"a", "1">>>>]

\* the descriptors set_block is called with
Descriptors == {Air, StairsAB, StairsBA}

\* the cells set_block is called on: <<x, world y, z>>
Cells == {<<0, -1, 0>>, <<0, 64, 0>>, <<15, 64, 15>>}

\* a packed array that holds `indices` in its first cells and 0 elsewhere
DataOf(indices, bits) ==
    LET longs == pack(indices, bits)
    IN [len |-> Len(longs),
        nz  |-> [w \in {v \in 0 .. (Len(longs) - 1) : longs[v + 1] # LongZero} |->
                    longs[w + 1]]]

\* stored section tags
SecStone == [Y |-> 4, block_states |-> [palette |-> <<Air, Stone>>,
                                        data |-> DataOf(<<1, 0, 1>>, 4)]]

\* cell 1 holds index 5, the palette has two entries
SecOutOfRange == [Y |-> 4, block_states |-> [palette |-> <<Air, Stone>>,
                                             data |-> DataOf(<<1, 5>>, 4)]]

\* a palette entry without "Name"
SecNoName == [Y |-> 3, block_states |->
                 [palette |-> <<Air, [Properties |-> <<<<"a", "1">>>>]>>,
                  data |-> DataOf(<<1>>, 4)]]

SecEmptyPalette == [Y |-> 2, block_states |-> [palette |-> <<>>]]

SecNoBlockStates == [Y |-> 1]

SecAirOnly == [Y |-> 0, block_states |-> [palette |-> <<Air>>]]

\* a one-entry palette with a packed array whose cell 0 holds index 1
SecOneEntryWithData == [Y |-> 5, block_states |-> [palette |-> <<Stone>>,
                                                   data |-> DataOf(<<1>>, 4)]]

StoredSectionLists ==
    {<<>>, <<SecStone>>, <<SecOutOfRange>>, <<SecStone, SecNoName>>,
     <<SecEmptyPalette>>, <<SecNoBlockStates, SecAirOnly>>, <<SecOneEntryWithData>>}

StoredChunkTags ==
    {[DataVersion |-> 3000, Status |-> "minecraft:features", xPos |-> 0, zPos |-> 0,
      yPos |-> FloorY, sections |-> sl, Heightmaps |-> "opaque"] :
        sl \in StoredSectionLists}

NoTag == [none |-> TRUE]

\* ch_src of a decoded Chunk that set_block has changed since
Decoded == [none |-> FALSE]

NoArg == [none |-> TRUE]

ChunkIdle ==
    /\ ch = NewChunk(0, 0) /\ ch_src = NoTag /\ ch_op = "idle" /\ ch_arg = NoArg

\* an other_tags bag a caller filled: one key of its own, one named like a
\* field to_nbt writes
CallerBag == [Custom |-> "kept", Status |-> "from the bag"]

\* the Chunk objects the calls start from
InitialChunks == {NewChunk(0, 0), [NewChunk(0, 0) EXCEPT !.other_tags = CallerBag]}

InitChunk ==
    /\ ch \in InitialChunks
    /\ ch_src = NoTag
    /\ ch_op = "Chunk"
    /\ ch_arg = NoArg
    /\ PackIdle
    /\ SectionIdle
    /\ RegionIdle
    /\ PlaceIdle

\* chunk.set_block(x, y, z, block_data)
ChSetBlock ==
    \E c \in Cells, d \in Descriptors :
        /\ ch' = Chunk_set_block(ch, c[1], c[2], c[3], d)
        /\ ch_op' = "set_block"
        /\ ch_arg' = [x |-> c[1], y |-> c[2], z |-> c[3], block_data |-> d]
        /\ ch_src' = IF ch_src = NoTag THEN NoTag ELSE Decoded
        /\ UNCHANGED <<placeVars, packVars, sectionVars, regionVars>>

\* chunk = Chunk.from_nbt(tag) for a stored tag
ChFromNbt ==
    \E tag \in StoredChunkTags :
        /\ ch_op = "Chunk"
        /\ ch' = Chunk_from_nbt(tag)
        /\ ch_src' = tag
        /\ ch_op' = "from_nbt"
        /\ ch_arg' = NoArg
        /\ UNCHANGED <<placeVars, packVars, sectionVars, regionVars>>

\* chunk = Chunk.from_nbt(chunk.to_nbt())
ChReload ==
    /\ ch_src = NoTag \/ ch_op = "from_nbt"
    /\ ch' = Chunk_from_nbt(Chunk_to_nbt(ch))
    /\ ch_src' = Chunk_to_nbt(ch)
    /\ ch_op' = "reload"
    /\ ch_arg' = NoArg
    /\ UNCHANGED <<placeVars, packVars, sectionVars, regionVars>>

NextChunk == ChSetBlock \/ ChFromNbt \/ ChReload

SpecChunk == InitChunk /\ [][NextChunk]_vars

\* the <<name, value>> pairs of a descriptor, as a set
PairsOf(block_data) ==
    IF HasKey(block_data, "Properties")
    THEN {block_data.Properties[i] : i \in 1 .. Len(block_data.Properties)}
    ELSE {}

\* the same name and the same property name/value pairs, in any order
SameBlock(d1, d2) == d1.Name = d2.Name /\ PairsOf(d1) = PairsOf(d2)

\* C7: in a Section reached from Section(y) by set_block calls alone, no two
\* palette entries have the same canonical key name[sorted k=v list]
C7_PaletteUniqueByKey ==
    ch_src = NoTag =>
        \A y \in DOMAIN ch.sections :
            \A i, j \in 1 .. Len(ch.sections[y].palette) :
                i # j => PaletteKey(ch.sections[y].palette[i])
                            # PaletteKey(ch.sections[y].palette[j])

\* C8: a set_block that follows a set_block on the same section with the same
\* name and the same property pairs (in any order) leaves len(palette) as it
\* was and writes the index the first call wrote
C8_ReorderedReusesEntry ==
    [][(/\ ch_op = "set_block" /\ ch_op' = "set_block"
        /\ ch_arg.y \div 16 = ch_arg'.y \div 16
        /\ SameBlock(ch_arg.block_data, ch_arg'.block_data))
       => LET sy == ch_arg.y \div 16
          IN /\ Len(ch'.sections[sy].palette) = Len(ch.sections[sy].palette)
             /\ Section_get_block_id(ch'.sections[sy], ch_arg'.x, ch_arg'.y % 16, ch_arg'.z)
                  = Section_get_block_id(ch.sections[sy], ch_arg.x, ch_arg.y % 16, ch_arg.z)]_vars

\* set_block(StairsBA) has reused the entry set_block(StairsAB) added
C8_Witness ==
    /\ ch_op = "set_block"
    /\ ch_arg.block_data = StairsBA
    /\ LET s == ch.sections[ch_arg.y \div 16]
           idx == Section_get_block_id(s, ch_arg.x, ch_arg.y % 16, ch_arg.z)
       IN /\ s.palette[idx + 1] = StairsAB
          /\ \A i \in 1 .. Len(s.palette) : s.palette[i] # StairsBA

\* C9: every entry of the block array of every Section is < len(palette); the
\* array of a section always holds entries that are 0, so len(palette) > 0
C9_IndicesBelowPaletteLen ==
    \A y \in DOMAIN ch.sections :
        /\ Len(ch.sections[y].palette) > 0
        /\ \A f \in DOMAIN ch.sections[y].blocks :
              ch.sections[y].blocks[f] < Len(ch.sections[y].palette)

\* C10: when Chunk.from_nbt returns a chunk, every stored section was decoded:
\* none raised and was left out, and none holds an index >= len(palette)
C10_DecodeFailureSurfaces ==
    ch_op = "from_nbt" =>
        \A i \in 1 .. Len(ch_src.sections) :
            LET t == ch_src.sections[i]
            IN SectionWanted(t) =>
                  /\ ~Section_from_nbt_raises(t)
                  /\ t.Y \in DOMAIN ch.sections
                  /\ \A f \in DOMAIN ch.sections[t.Y].blocks :
                        ch.sections[t.Y].blocks[f] < Len(ch.sections[t.Y].palette)

\* the columns get_highest_block is asked about
Columns == {<<0, 0>>, <<15, 15>>}

\* the world Y of the cells of column (x, z) that resolve to a palette entry
\* whose name is not minecraft:air
GroundYs(c, x, z) ==
    {(p[1] * 16) + p[2] :
        p \in {q \in (DOMAIN c.sections) \X (0 .. 15) :
                  LET s == c.sections[q[1]]
                      idx == GetCell(s.blocks, (q[2] * 256) + (z * 16) + x)
                  IN idx < Len(s.palette) /\ s.palette[idx + 1].Name # AIR}}

\* C12: get_highest_block(x, z) is the largest world Y of a cell of the column
\* that resolves to a block other than air, and -64 when there is none
C12_HighestBlock ==
    \A col \in Columns :
        LET ys == GroundYs(ch, col[1], col[2])
            got == Chunk_get_highest_block(ch, col[1], col[2])
        IN IF ys = {} THEN got = FloorY
           ELSE got \in ys /\ \A y \in ys : y <= got

\* a chunk with blocks in two sections, none of them section 0:
\* get_highest_block(0, 0) is 64, and column (15, 15) has only air below it
C12_Witness ==
    /\ DOMAIN ch.sections = {-1, 4}
    /\ GroundYs(ch, 0, 0) = {-1, 64}
    /\ Chunk_get_highest_block(ch, 0, 0) = 64
    /\ Chunk_get_highest_block(ch, 15, 15) = FloorY

\* the section tags of ch_src that Chunk.from_nbt decoded into ch
DecodedTags ==
    {t \in {ch_src.sections[i] : i \in 1 .. Len(ch_src.sections)} :
        SectionWanted(t) /\ ~Section_from_nbt_raises(t)}

\* C13: a section tag written by to_nbt holds "data" iff its palette has more
\* than one entry, and a section decoded from a tag without "data" has 4096
\* cells that all hold palette index 0
C13_DataIffPaletteOverOne ==
    /\ ch_op = "reload" =>
          \A i \in 1 .. Len(ch_src.sections) :
              LET bs == ch_src.sections[i].block_states
              IN HasKey(bs, "data") <=> Len(bs.palette) > 1
    /\ ch_op \in {"reload", "from_nbt"} =>
          \A t \in DecodedTags :
              ~HasKey(t.block_states, "data") =>
                  \A f \in 0 .. (SectionVolume - 1) :
                      GetCell(ch.sections[t.Y].blocks, f) = 0

\* to_nbt has written a section with a one-entry palette and no "data", and
\* from_nbt has decoded it to a section of index 0 throughout
C13_Witness ==
    /\ ch_op = "reload"
    /\ \E t \in DecodedTags :
          /\ Len(t.block_states.palette) = 1
          /\ ~HasKey(t.block_states, "data")
          /\ ch.sections[t.Y].blocks = NoBlocks
          /\ ch.sections[t.Y].palette = t.block_states.palette

\* the step is chunk = Chunk.from_nbt(chunk.to_nbt()), ch_src' the tag written
IsReload == ch_op # "reload" /\ ch_op' = "reload"

\* what Chunk.to_nbt is to write for chunk c: the sections in ascending
\* section-Y order, the six managed keys from the typed fields, every other
\* entry of the bag as it is
TagAsSpecified(tag, c) ==
    /\ {tag.sections[i].Y : i \in 1 .. Len(tag.sections)} = DOMAIN c.sections
    /\ Len(tag.sections) = Cardinality(DOMAIN c.sections)
    /\ \A i, j \in 1 .. Len(tag.sections) :
          i < j => tag.sections[i].Y < tag.sections[j].Y
    /\ tag.DataVersion = c.data_version
    /\ tag.Status = c.status
    /\ tag.xPos = c.x /\ tag.zPos = c.z /\ tag.yPos = FloorY
    /\ DOMAIN tag = ManagedKeys \cup DOMAIN c.other_tags
    /\ \A k \in (DOMAIN c.other_tags) \ ManagedKeys : tag[k] = c.other_tags[k]

\* chunk d has the x, z, data version, status and section contents of chunk c
SameTypedFields(d, c) ==
    /\ d.x = c.x /\ d.z = c.z
    /\ d.data_version = c.data_version
    /\ d.status = c.status
    /\ DOMAIN d.sections = DOMAIN c.sections
    /\ \A y \in DOMAIN c.sections :
          /\ d.sections[y].y_index = c.sections[y].y_index
          /\ d.sections[y].palette = c.sections[y].palette
          /\ d.sections[y].blocks = c.sections[y].blocks

\* every block-array entry of every section of c is below len(palette)
IndicesInPalette(c) ==
    \A y \in DOMAIN c.sections :
        \A f \in DOMAIN c.sections[y].blocks :
            c.sections[y].blocks[f] < Len(c.sections[y].palette)

SplitY(y) ==
    LET sy == CHOOSE v \in -5 .. 20 : v * 16 <= y /\ y < (v * 16) + 16
    IN <<sy, y - (sy * 16)>>

\* C26: Chunk.set_block(x, y, z, d) with x, z in 0..15 and y in -64..319 sets
\* cell (x, ly, z) of section sy, sy*16 + ly = y, to an entry that resolves to
\* d; the section is created only when absent, every other cell of it keeps
\* its entry and every palette entry its place, and no other section changes
C26_SetBlockChangesOneCell ==
    [][(/\ ch_op' = "set_block"
        /\ ch_arg'.x \in 0 .. 15 /\ ch_arg'.z \in 0 .. 15 /\ ch_arg'.y \in -64 .. 319)
       => LET sy == SplitY(ch_arg'.y)[1]
              ly == SplitY(ch_arg'.y)[2]
              flat == (ly * 256) + (ch_arg'.z * 16) + ch_arg'.x
              old == IF sy \in DOMAIN ch.sections THEN ch.sections[sy]
                     ELSE [y_index |-> sy, palette |-> <<Air>>, blocks |-> NoBlocks]
          IN /\ DOMAIN ch'.sections = DOMAIN ch.sections \cup {sy}
             /\ \A y \in (DOMAIN ch.sections) \ {sy} : ch'.sections[y] = ch.sections[y]
             /\ ch'.sections[sy].y_index = old.y_index
             /\ \A f \in (DOMAIN old.blocks \cup DOMAIN ch'.sections[sy].blocks) \ {flat} :
                   GetCell(ch'.sections[sy].blocks, f) = GetCell(old.blocks, f)
             /\ Len(ch'.sections[sy].palette) >= Len(old.palette)
             /\ \A i \in 1 .. Len(old.palette) : ch'.sections[sy].palette[i] = old.palette[i]
             /\ LET idx == GetCell(ch'.sections[sy].blocks, flat)
                IN /\ idx < Len(ch'.sections[sy].palette)
                   /\ SameBlock(ch'.sections[sy].palette[idx + 1], ch_arg'.block_data)]_vars

\* set_block at y = -1 has set cell (0, 15, 0) of section -1, the only cell
\* of that section that is not air, next to a section 4 that holds blocks
C26_Witness ==
    /\ ch_op = "set_block"
    /\ ch_arg.y = -1
    /\ DOMAIN ch.sections = {-1, 4}
    /\ DOMAIN ch.sections[-1].blocks = {(15 * 256) + (ch_arg.z * 16) + ch_arg.x}
    /\ DOMAIN ch.sections[4].blocks # {}
    /\ SameBlock(ch.sections[-1].palette[ch.sections[-1].blocks[15 * 256] + 1], ch_arg.block_data)

\* the section-local cells of Cells
LocalCells == {<<c[1], c[2] % 16, c[3]>> : c \in Cells}

\* section r has the section-Y, palette and indices of section s
SameSectionContent(r, s) ==
    r.y_index = s.y_index /\ r.palette = s.palette /\ r.blocks = s.blocks

\* C30: for a Section s reached from Section(y) by set_block calls,
\* Section.from_nbt(s.to_nbt()) has the section-Y, the palette and the indices
\* of s, and the same further set_block call leaves both with the same
\* palette and the same indices
C30_ReloadedSectionIndistinguishable ==
    ch_src = NoTag =>
        \A y \in DOMAIN ch.sections :
            LET s == ch.sections[y]
                r == Section_from_nbt(Section_to_nbt(s))
            IN /\ SameSectionContent(r, s)
               /\ \A c \in LocalCells, d \in Descriptors :
                     SameSectionContent(Section_set_block(r, c[1], c[2], c[3], d),
                                        Section_set_block(s, c[1], c[2], c[3], d))

(***************************************************************************)
(* SpecSection: one Section object, called by a caller that does not keep  *)
(* to the coordinate range 0..15.  Each call leaves the object as the      *)
(* Python statements executed before the exception, if any, left it.       *)
(***************************************************************************)
MaxSectionCalls == 2

\* <<x, y, z>> the Section is called with: two cells of the section, and
\* coordinates with one component outside 0..15
SectionCoords ==
    {<<0, 0, 0>>, <<15, 15, 15>>,
     <<16, 0, 0>>, <<-1, 0, 0>>, <<0, 0, 16>>, <<0, -1, 0>>,
     <<16, 15, 15>>, <<0, 16, 0>>, <<0, -17, 0>>}

SectionDescriptors == {Air, Stone}

InitSection ==
    /\ sc = NewSection(0)
    /\ sc_op = "Section"
    /\ sc_arg = <<>>
    /\ sc_raised = FALSE
    /\ sc_calls = 0
    /\ PackIdle
    /\ ChunkIdle
    /\ RegionIdle
    /\ PlaceIdle

\* section.set_block(x, y, z, block_data)
ScSetBlock ==
    \E c \in SectionCoords, d \in SectionDescriptors :
        /\ sc_calls < MaxSectionCalls
        /\ sc' = Section_set_block(sc, c[1], c[2], c[3], d)
        /\ sc_raised' = Section_set_block_raises(c[1], c[2], c[3])
        /\ sc_op' = "set_block"
        /\ sc_arg' = [x |-> c[1], y |-> c[2], z |-> c[3], block_data |-> d]
        /\ sc_calls' = sc_calls + 1
        /\ UNCHANGED <<placeVars, packVars, chunkVars, regionVars>>

\* section.get_block_id(x, y, z)
ScGetBlockId ==
    \E c \in SectionCoords :
        /\ sc_calls < MaxSectionCalls
        /\ sc_raised' = Section_get_block_id_raises(c[1], c[2], c[3])
        /\ sc_op' = "get_block_id"
        /\ sc_arg' = [x |-> c[1], y |-> c[2], z |-> c[3]]
        /\ sc_calls' = sc_calls + 1
        /\ UNCHANGED <<placeVars, sc, packVars, chunkVars, regionVars>>

NextSection == ScSetBlock \/ ScGetBlockId

SpecSection == InitSection /\ [][NextSection]_vars

\* a local coordinate of the arguments lies outside 0..15
OutOfRange(arg) == \E v \in {arg.x, arg.y, arg.z} : v < 0 \/ v > 15

\* C11: a set_block or get_block_id call with a local coordinate outside
\* 0..15 ends in an exception and leaves the block array and the palette as
\* they were
C11_OutOfRangeCoordsRaise ==
    [][(sc_calls' # sc_calls /\ OutOfRange(sc_arg'))
          => /\ sc_raised'
             /\ sc'.blocks = sc.blocks
             /\ sc'.palette = sc.palette]_vars

(***************************************************************************)
(* SpecPack: pack and unpack applied to index lists.  The lists are of     *)
(* every length 0..MaxPackLen, filled with one value of 0..n-1 and holding *)
(* a second value of 0..n-1 at one place.                                  *)
(***************************************************************************)
MaxPackLen == 17

PaletteSizes == {1, 2, 16, 17, 129, 256, 4096}

IndexChoices(n) == {0, n \div 2, n - 1}

PackInputs(n) ==
    {[i \in 1 .. len |-> IF i = p THEN b ELSE a] :
        len \in 0 .. MaxPackLen, p \in 1 .. MaxPackLen,
        a \in IndexChoices(n), b \in IndexChoices(n)}

InitPack ==
    /\ pk_pc = "input"
    /\ pk_n \in PaletteSizes
    /\ pk_indices \in PackInputs(pk_n)
    /\ pk_longs = <<>>
    /\ pk_out = <<>>
    /\ ChunkIdle
    /\ SectionIdle
    /\ RegionIdle
    /\ PlaceIdle

\* longs = BitPacker.pack(indices, bits) with the bits of Section.to_nbt
DoPack ==
    /\ pk_pc = "input"
    /\ pk_longs' = pack(pk_indices, ToNbtBits(pk_n))
    /\ pk_pc' = "packed"
    /\ UNCHANGED <<placeVars, pk_n, pk_indices, pk_out, chunkVars, sectionVars, regionVars>>

\* the stored array is cut short: only its first k words are left
DoCut ==
    \E k \in 0 .. (Len(pk_longs) - 1) :
        /\ pk_pc = "packed"
        /\ pk_longs' = SubSeq(pk_longs, 1, k)
        /\ pk_pc' = "cut"
        /\ UNCHANGED <<placeVars, pk_n, pk_indices, pk_out, chunkVars, sectionVars, regionVars>>

\* out = BitPacker.unpack(longs, bits, len(indices)) with the bits of
\* Section.from_nbt
DoUnpack ==
    /\ pk_pc \in {"packed", "cut"}
    /\ pk_out' = unpack(pk_longs, FromNbtBits(pk_n), Len(pk_indices))
    /\ pk_pc' = IF pk_pc = "cut" THEN "done short" ELSE "done"
    /\ UNCHANGED <<placeVars, pk_n, pk_indices, pk_longs, chunkVars, sectionVars, regionVars>>

NextPack == DoPack \/ DoCut \/ DoUnpack

SpecPack == InitPack /\ [][NextPack]_vars

\* C3: unpack(pack(indices, bits), bits, len(indices)) = indices for every
\* palette size n, bits = min_bits(n-1) and indices in 0..n-1, also when a
\* packed word is stored as a negative long or the last word is partly filled
C3_RoundTrip == pk_pc = "done" => pk_out = pk_indices

C3_Witness ==
    /\ pk_pc = "done"
    /\ pk_out = pk_indices
    /\ \E k \in 1 .. Len(pk_longs) : pk_longs[k].neg
    /\ Len(pk_indices) % (WordBits \div min_bits(pk_n - 1)) # 0

\* bit b (0 the lowest) of a 64-bit word
BitAt(u, b) == (u[(b \div LimbBits) + 1] \div (2 ^ (b % LimbBits))) % 2

RECURSIVE BitsValue(_, _, _)
\* the number that bits lo .. lo+n-1 of the word spell, lowest bit first
BitsValue(u, lo, n) ==
    IF n = 0 THEN 0 ELSE BitAt(u, lo) + (2 * BitsValue(u, lo + 1, n - 1))

\* the 64 bits a long of a TAG_Long_Array is stored as (two's complement)
StoredBits(l) == IF l.neg THEN Complement64(l.mag) ELSE l.mag

C22_MissingWordsReadZero ==
    pk_pc = "done short" =>
        LET epw == WordBits \div FromNbtBits(pk_n)
        IN /\ Len(pk_out) = Len(pk_indices)
           /\ \A i \in 0 .. (Len(pk_indices) - 1) :
                 pk_out[i + 1] = IF i \div epw < Len(pk_longs)
                                 THEN pk_indices[i + 1] ELSE 0

\* a list was unpacked that lacks its last word, whose value was not 0, and
\* whose first word is a negative long
C22_Witness ==
    /\ pk_pc = "done short"
    /\ Len(pk_longs) = 1
    /\ pk_longs[1].neg
    /\ Len(pk_indices) = MaxPackLen
    /\ pk_indices[MaxPackLen] # 0
    /\ pk_out[MaxPackLen] = 0
    /\ pk_out[1] = pk_indices[1]

\* values min_bits is asked about, around the powers of two
MinBitsInputs == {0, 1, 7, 8, 15, 16, 17, 31, 32, 255, 256, 4095, 4096}

\* b is max(4, bit_length(x)): bit_length(x) is the least k with x < 2^k
IsFlooredBitLength(b, x) ==
    /\ b >= MinBitsPerBlock
    /\ x < 2 ^ b
    /\ b > MinBitsPerBlock => x >= 2 ^ (b - 1)

\* C23: min_bits(x) is max(4, bit_length(x)) and so >= 4; to_nbt and from_nbt
\* use the same width for the same palette, and every index below
\* len(palette) is below 2^width
C23_MinBitsFloorAndWidth ==
    /\ \A x \in MinBitsInputs : IsFlooredBitLength(min_bits(x), x)
    /\ IsFlooredBitLength(min_bits(pk_n - 1), pk_n - 1)
    /\ ToNbtBits(pk_n) = FromNbtBits(pk_n)
    /\ ToNbtBits(pk_n) = min_bits(pk_n - 1)
    /\ \A i \in 1 .. Len(pk_indices) :
          pk_indices[i] < pk_n => pk_indices[i] < 2 ^ ToNbtBits(pk_n)

\* a palette of 16 entries was packed and unpacked at the floor of 4 bits with
\* index 15 in the list; 17 entries take 5 bits
C23_Witness ==
    /\ pk_pc = "done"
    /\ pk_n = 16
    /\ ToNbtBits(pk_n) = 4
    /\ FromNbtBits(pk_n + 1) = 5
    /\ \E i \in 1 .. Len(pk_indices) : pk_indices[i] = 15
    /\ pk_out = pk_indices

(***************************************************************************)
(* Spec: the region files and the Region objects opened on them.  Each     *)
(* file starts absent, empty, as a bare location table, or holding one     *)
(* stored chunk.  A Region object is constructed on the file as it is      *)
(* then, used, and dropped; the next one is constructed after that.        *)
(***************************************************************************)
MaxSaves == 3

MaxFileSectors == 7

RegionIds == {1}

Live(r) == regions[r] # NoRegion

\* the tables of a Region object: [0] * 1024 each before _read_header
TablesOf(self) == [loc |-> self.locations, ts |-> self.timestamps]

NoTables == [loc |-> ZeroTable, ts |-> ZeroTable]

\* the compression-method byte of a stored payload: gzip, zlib, neither
StoredMethods == {1, 2, 3}

\* a region file that holds chunk (0, 0) in sector 2, compressed by `method`
StoredFile(method) ==
    [exists |-> TRUE,
     len    |-> HeaderLen + SECTOR_SIZE,
     loc    |-> [ZeroTable EXCEPT ![SlotOf(0, 0)] = MakeEntry(2, 1)],
     ts     |-> ZeroTable,
     sec    |-> [k \in {2} |-> [chunk |-> RegionChunk(0, 0, EmptyChunkLen), n |-> 1,
                                part |-> 1, method |-> method]]]

\* coordinates get_chunk is called with that are not in 0..31; masked with
\* & 31 they name the slots of ChunkCoords
BadCoords == {<<-32, 0>>, <<31, 63>>}

\* the file at a path before the first Region is constructed: none, an empty
\* file, a file of one zero sector, a file that holds a chunk
InitialFiles ==
    {NoFile, ZeroFile(0), ZeroFile(SECTOR_SIZE)} \cup {StoredFile(m) : m \in StoredMethods}

Init ==
    /\ disk \in [Paths -> InitialFiles]
    /\ regions = [r \in RegionIds |-> NoRegion]
    /\ clock = 1
    /\ rg_last = "-"
    /\ rg_arg = <<>>
    /\ rg_log = <<>>
    /\ rg_written = [p \in Paths |-> {i \in Slots : disk[p].loc[i] # 0}]
    /\ rg_open = [r \in RegionIds |-> NoTables]
    /\ rg_who = 0
    /\ PackIdle
    /\ ChunkIdle
    /\ SectionIdle
    /\ PlaceIdle

\* region = Region(file_path)
NewRegion(r) ==
    \E p \in Paths :
        /\ ~Live(r)
        /\ regions' = IF Region_init_raises(disk[p]) THEN regions
                       ELSE [regions EXCEPT ![r] = Region_init(p, disk[p])]
        /\ rg_open' = IF Region_init_raises(disk[p]) THEN rg_open
                       ELSE [rg_open EXCEPT ![r] = TablesOf(Region_init(p, disk[p]))]
        /\ rg_last' = IF Region_init_raises(disk[p]) THEN "Region raised" ELSE "-"
        /\ rg_arg' = <<>>
        /\ rg_who' = r
        /\ rg_log' = <<>>
        /\ UNCHANGED <<placeVars, disk, clock, rg_written, packVars, chunkVars, sectionVars>>

\* region.get_chunk(rx, rz)
GetChunk(r) ==
    \E c \in ChunkCoords \cup BadCoords :
        /\ Live(r)
        /\ LET got == Region_get_chunk(regions[r], disk[regions[r].file_path], c[1], c[2])
           IN /\ regions' = [regions EXCEPT ![r] = got.self]
              /\ rg_last' = IF got.raised THEN "get_chunk raised" ELSE "get_chunk"
        /\ rg_arg' = c
        /\ rg_who' = r
        /\ rg_log' = <<>>
        /\ UNCHANGED <<placeVars, disk, clock, rg_written, rg_open, packVars, chunkVars, sectionVars>>

\* set_block calls on a cached chunk that change the length of its payload
SetBlocks(r) ==
    \E clen \in ChunkLens :
        /\ Live(r)
        /\ \E index \in DOMAIN regions[r].chunks :
              /\ regions[r].chunks[index].clen # clen
              /\ regions' = [regions EXCEPT ![r].chunks[index].clen = clen]
        /\ rg_last' = "-"
        /\ rg_arg' = <<>>
        /\ rg_who' = r
        /\ rg_log' = <<>>
        /\ UNCHANGED <<placeVars, disk, clock, rg_written, rg_open, packVars, chunkVars, sectionVars>>

\* region.save()
Save(r) ==
    /\ Live(r)
    /\ clock <= MaxSaves
    /\ LET saved == Region_save(regions[r], disk[regions[r].file_path], clock)
       IN /\ saved.file.len <= MaxFileSectors * SECTOR_SIZE
          /\ regions' = [regions EXCEPT ![r] = saved.self]
          /\ disk' = [disk EXCEPT ![regions[r].file_path] = saved.file]
          /\ rg_log' = saved.log
          /\ rg_written' = [rg_written EXCEPT ![regions[r].file_path] =
                                @ \cup {saved.log[k].index : k \in 1 .. Len(saved.log)}]
    /\ clock' = clock + 1
    /\ rg_last' = "save"
    /\ rg_arg' = <<>>
    /\ rg_who' = r
    /\ UNCHANGED <<placeVars, rg_open, packVars, chunkVars, sectionVars>>

\* the Region object is dropped
Discard(r) ==
    /\ Live(r)
    /\ regions' = [regions EXCEPT ![r] = NoRegion]
    /\ rg_open' = [rg_open EXCEPT ![r] = NoTables]
    /\ rg_last' = "-"
    /\ rg_arg' = <<>>
    /\ rg_who' = r
    /\ rg_log' = <<>>
    /\ UNCHANGED <<placeVars, disk, clock, rg_written, packVars, chunkVars, sectionVars>>

Next ==
    \E r \in RegionIds :
        NewRegion(r) \/ GetChunk(r) \/ SetBlocks(r) \/ Save(r) \/ Discard(r)

Spec == Init /\ [][Next]_vars

\* two location entries that are not 0 cover no sector in common
DisjointEntries(loc) ==
    \A i, j \in DOMAIN loc :
        (i # j /\ loc[i] # 0 /\ loc[j] # 0) => SectorsOf(loc[i]) \cap SectorsOf(loc[j]) = {}

\* C1: no sector is covered by the location entries of two chunks, in the
\* table of a Region object and in the table of a file
C1_NoSectorShared ==
    /\ \A r \in RegionIds : Live(r) => DisjointEntries(regions[r].locations)
    /\ \A p \in Paths : disk[p].exists => DisjointEntries(disk[p].loc)

\* C14: every Region object counts sectors 0 and 1 as used, and every location
\* entry save() records has an offset >= 2
C14_HeaderSectorsReserved ==
    /\ \A r \in RegionIds : Live(r) => {0, 1} \subseteq regions[r].used_sectors
    /\ \A k \in 1 .. Len(rg_log) : OffsetOf(rg_log[k].entry) >= 2

\* C15: a slot's location entry, in a Region object and in the file, is 0 iff
\* no payload has ever been written for the slot; after save() every cached
\* chunk has an entry that is not 0
C15_EntryZeroIffNeverWritten ==
    /\ \A r \in RegionIds : Live(r) =>
          \A index \in Slots :
              regions[r].locations[index] = 0
                  <=> index \notin rg_written[regions[r].file_path]
    /\ \A p \in Paths : disk[p].exists =>
          \A index \in Slots : disk[p].loc[index] = 0 <=> index \notin rg_written[p]
    /\ rg_last = "save" =>
          \A r \in RegionIds : Live(r) =>
              \A index \in DOMAIN regions[r].chunks : regions[r].locations[index] # 0

\* a Region opened on a file that holds one chunk has saved it again: that
\* slot's entry is not 0, and the slot never fetched still has entry 0
C15_Witness ==
    /\ rg_last = "save"
    /\ \E r \in RegionIds :
          /\ Live(r)
          /\ regions[r].file_exists
          /\ DOMAIN regions[r].chunks = {0}
          /\ OffsetOf(rg_log[1].old_entry) # 0
          /\ regions[r].locations[0] # 0
          /\ regions[r].locations[1023] = 0

\* the step is a get_chunk call on Region r
IsGetChunk(r) ==
    /\ rg_arg' # <<>>
    /\ rg_last' \in {"get_chunk", "get_chunk raised"}
    /\ Live(r)

\* x + z*32 names each pair of 0..31 x 0..31 by a key of its own
KeysDistinct ==
    Cardinality({SlotOf(x, z) : x \in 0 .. 31, z \in 0 .. 31}) = 32 * 32

\* C16: get_chunk(x, z) with x or z outside 0..31 raises and leaves the Region
\* object as it was; in range, the chunk is cached under the key x + z*32
\* (distinct pairs have distinct keys) with every other cache entry left
\* alone, and a get_chunk of a cached chunk returns that chunk as it is
C16_GetChunkRangeKeyCache ==
    /\ KeysDistinct
    /\ [][\A r \in RegionIds : IsGetChunk(r) =>
            LET rx == rg_arg'[1]
                rz == rg_arg'[2]
                key == rx + (rz * 32)
                file == disk[regions[r].file_path]
            IN IF rx < 0 \/ rx >= 32 \/ rz < 0 \/ rz >= 32
               THEN rg_last' = "get_chunk raised" /\ regions' = regions
               ELSE /\ SlotOf(rx, rz) = key
                    /\ rg_last' = "get_chunk" =>
                          /\ key \in DOMAIN regions'[r].chunks
                          /\ \A k \in (DOMAIN regions[r].chunks) \ {key} :
                                /\ k \in DOMAIN regions'[r].chunks
                                /\ regions'[r].chunks[k] = regions[r].chunks[k]
                          /\ DOMAIN regions'[r].chunks \subseteq DOMAIN regions[r].chunks \cup {key}
                    /\ key \in DOMAIN regions[r].chunks =>
                          /\ rg_last' = "get_chunk"
                          /\ regions' = regions
                          /\ Region_get_chunk(regions[r], file, rx, rz).chunk
                                = regions[r].chunks[key]]_vars

\* get_chunk(31, 31) was called on a Region that had the chunk in its cache,
\* changed by set_block calls: no file holds it, and it is still as changed
C16_Witness ==
    /\ rg_last = "get_chunk"
    /\ rg_arg = <<31, 31>>
    /\ \E r \in RegionIds :
          /\ Live(r)
          /\ ~disk[regions[r].file_path].exists
          /\ DOMAIN regions[r].chunks = {0, 1023}
          /\ regions[r].chunks[1023].clen \in ChunkLens

\* the sectors from `offset` on hold one whole payload
WholePayload(file, offset) ==
    /\ file.sec[offset].part = 1
    /\ \A k \in 1 .. file.sec[offset].n :
          /\ (offset + k - 1) \in DOMAIN file.sec
          /\ file.sec[offset + k - 1] = [file.sec[offset] EXCEPT !.part = k]

\* C17: a get_chunk that reads a stored payload raises when the compression
\* byte is neither 1 nor 2 and decodes it when the byte is 1 or 2; a get_chunk
\* that raises caches nothing and leaves the Region object and the file alone
C17_UnknownCompressionRaises ==
    [][\A r \in RegionIds : IsGetChunk(r) =>
          LET rx == rg_arg'[1]
              rz == rg_arg'[2]
              key == SlotOf(rx, rz)
              file == disk[regions[r].file_path]
              offset == OffsetOf(regions[r].locations[key])
          IN /\ rg_last' = "get_chunk raised" => regions' = regions /\ disk' = disk
             /\ (/\ CoordsInRange(rx, rz)
                 /\ key \notin DOMAIN regions[r].chunks
                 /\ regions[r].file_exists
                 /\ offset # 0
                 /\ offset \in DOMAIN file.sec)
                => /\ file.sec[offset].method \notin {1, 2} =>
                         /\ rg_last' = "get_chunk raised"
                         /\ key \notin DOMAIN regions'[r].chunks
                   /\ (file.sec[offset].method \in {1, 2} /\ WholePayload(file, offset)) =>
                         /\ rg_last' = "get_chunk"
                         /\ regions'[r].chunks[key] = file.sec[offset].chunk]_vars

\* get_chunk(0, 0) has raised on a payload of compression method 3 in a Region
\* that holds chunk (31, 31) in its cache
C17_Witness ==
    /\ rg_last = "get_chunk raised"
    /\ rg_arg = <<0, 0>>
    /\ \E r \in RegionIds :
          /\ Live(r)
          /\ DOMAIN regions[r].chunks = {1023}
          /\ LET file == disk[regions[r].file_path]
                 offset == OffsetOf(regions[r].locations[0])
             IN /\ offset \in DOMAIN file.sec
                /\ file.sec[offset].method = 3
                /\ WholePayload(file, offset)

\* the sectors a chunk write of the log wrote
Written(w) == w.new_offset .. (w.new_offset + w.sectors_needed - 1)

\* C18: save() writes one payload for each cached chunk, changed or not, sets
\* its location entry to where the payload went and its timestamp to the time
\* of the save, and the tables in the file are the tables as they are after
\* the last chunk write
C18_SaveWritesEveryCachedChunk ==
    rg_last = "save" =>
        \A r \in RegionIds : Live(r) =>
            LET R == regions[r]
                file == disk[R.file_path]
            IN /\ Len(rg_log) = Cardinality(DOMAIN R.chunks)
               /\ {rg_log[k].index : k \in 1 .. Len(rg_log)} = DOMAIN R.chunks
               /\ \A k \in 1 .. Len(rg_log) :
                     LET w == rg_log[k]
                     IN /\ R.locations[w.index] = w.entry
                        /\ OffsetOf(w.entry) = w.new_offset
                        /\ R.timestamps[w.index] = clock - 1
               /\ file.exists
               /\ file.loc = R.locations
               /\ file.ts = R.timestamps
               /\ Len(rg_log) > 0 =>
                     file.loc = [rg_log[Len(rg_log)].table EXCEPT
                                    ![rg_log[Len(rg_log)].index] = rg_log[Len(rg_log)].entry]

\* save() has written a chunk that was read from the file and never changed
\* and a chunk that get_chunk made empty and nothing was set in
C18_Witness ==
    /\ rg_last = "save"
    /\ Len(rg_log) = 2
    /\ OffsetOf(rg_log[1].old_entry) # 0
    /\ rg_log[2].old_entry = 0
    /\ \E r \in RegionIds :
          /\ Live(r)
          /\ regions[r].file_exists
          /\ \A index \in DOMAIN regions[r].chunks :
                regions[r].chunks[index].clen = EmptyChunkLen

\* the sectors the chunk writes of a save() covered
LogSectors(log) == UNION {Written(log[k]) : k \in 1 .. Len(log)}

\* C19: a save() on a path whose file exists does not shorten the file and
\* keeps every payload sector that none of its chunk writes covers; a save()
\* on a path with no file leaves a file of at least the 8192 header bytes
C19_SaveKeepsExistingFile ==
    [][(rg_last' = "save" /\ clock' # clock) =>
          \A r \in RegionIds : Live(r) =>
              LET p == regions[r].file_path
              IN /\ disk'[p].exists /\ disk'[p].len >= HeaderLen
                 /\ disk[p].exists =>
                       /\ disk'[p].len >= disk[p].len
                       /\ \A k \in DOMAIN disk[p].sec :
                             (k * SECTOR_SIZE >= HeaderLen /\ k \notin LogSectors(rg_log'))
                                => /\ k \in DOMAIN disk'[p].sec
                                   /\ disk'[p].sec[k] = disk[p].sec[k]]_vars

\* the sectors a save() writes: those of its chunk writes and the two of the
\* header tables
SaveWrites(log) == {0, 1} \cup LogSectors(log)

\* C29: after a save() on a Region opened from an existing file, every slot
\* not in the cache has in the file the location entry and the timestamp
\* read at open, and the save wrote no sector that such an entry covers
C29_SaveSparesUncachedChunks ==
    [][(rg_last' = "save" /\ clock' # clock) =>
          \A r \in RegionIds : (Live(r) /\ regions[r].file_exists) =>
              LET p == regions[r].file_path
              IN \A i \in Slots \ DOMAIN regions[r].chunks :
                    /\ disk'[p].loc[i] = rg_open[r].loc[i]
                    /\ disk'[p].ts[i] = rg_open[r].ts[i]
                    /\ rg_open[r].loc[i] # 0 =>
                          SectorsOf(rg_open[r].loc[i]) \cap SaveWrites(rg_log') = {}]_vars

\* what get_chunk gives for slot index on a Region constructed now on path p
FreshFetch(p, index) ==
    LET c == CHOOSE cc \in ChunkCoords : SlotOf(cc[1], cc[2]) = index
    IN Region_get_chunk(Region_init(p, disk[p]), disk[p], c[1], c[2])

\* C2: after save(), a Region constructed on the file fetches every chunk
\* the saving Region holds, and gets it with the content it was saved with
C2_SavedChunkReadBack ==
    rg_last = "save" =>
        \A r \in RegionIds : Live(r) =>
            \A index \in DOMAIN regions[r].chunks :
                LET got == FreshFetch(regions[r].file_path, index)
                IN /\ ~got.raised
                   /\ got.self.chunks[index] = regions[r].chunks[index]

\* the write found the payload to need more sectors than recorded
Grows(w) == w.sectors_needed > CountOf(w.old_entry)

\* the write found an offset recorded and the recorded count sufficient
Reuses(w) == OffsetOf(w.old_entry) # 0 /\ CountOf(w.old_entry) >= w.sectors_needed

\* C4: a chunk write of save() whose payload needs more sectors than recorded
\* goes to the sector-aligned end of the file as it was before the write, the
\* entry points there, and no sector written is covered by another slot's entry
C4_GrowthAppendsAndSparesOthers ==
    \A k \in 1 .. Len(rg_log) :
        LET w == rg_log[k]
        IN Grows(w) =>
              /\ w.new_offset * SECTOR_SIZE = AlignedEnd(w.file_end)
              /\ OffsetOf(w.entry) = w.new_offset
              /\ \A j \in DOMAIN w.table :
                    (j # w.index /\ w.table[j] # 0)
                        => SectorsOf(w.table[j]) \cap Written(w) = {}

\* C5: a chunk write of save() that finds an offset recorded and the recorded
\* count >= the sectors needed writes at the recorded offset and leaves the
\* offset part of the entry as it was
C5_FittingChunkStays ==
    \A k \in 1 .. Len(rg_log) :
        LET w == rg_log[k]
        IN Reuses(w) =>
              /\ w.new_offset = OffsetOf(w.old_entry)
              /\ OffsetOf(w.entry) = OffsetOf(w.old_entry)

\* save() has written a chunk in place that needs fewer sectors than recorded,
\* and one that needs exactly the recorded count
C5_Witness ==
    /\ rg_last = "save"
    /\ \E k \in 1 .. Len(rg_log) :
          Reuses(rg_log[k]) /\ rg_log[k].sectors_needed < CountOf(rg_log[k].old_entry)
    /\ \E k \in 1 .. Len(rg_log) :
          Reuses(rg_log[k]) /\ rg_log[k].sectors_needed = CountOf(rg_log[k].old_entry)

\* C6: a chunk write of save() that reuses the old location for a payload of
\* strictly fewer sectors leaves the recorded sector count no smaller
C6_ReuseKeepsSectorCount ==
    \A k \in 1 .. Len(rg_log) :
        LET w == rg_log[k]
        IN (Reuses(w) /\ w.sectors_needed < CountOf(w.old_entry))
              => CountOf(w.entry) >= CountOf(w.old_entry)

(***************************************************************************)
(* SpecTwo: two Region objects alive at once, each constructed on one of   *)
(* two files, with their get_chunk and save calls interleaved call by call *)
(* (a call runs to its end before the next starts).  Every chunk keeps the *)
(* payload length get_chunk gave it or found stored.                       *)
(***************************************************************************)
TwoIds == {1, 2}

TwoPaths == {"r.0.0.mca", "r.0.1.mca"}

\* the file at a path before the first Region is constructed: none, or a file
\* that holds chunk (0, 0)
TwoInitialFiles == {NoFile, StoredFile(2)}

InitTwo ==
    /\ disk \in [TwoPaths -> TwoInitialFiles]
    /\ regions = [r \in TwoIds |-> NoRegion]
    /\ clock = 1
    /\ rg_last = "-"
    /\ rg_arg = <<>>
    /\ rg_log = <<>>
    /\ rg_written = [p \in TwoPaths |-> {i \in Slots : disk[p].loc[i] # 0}]
    /\ rg_open = [r \in TwoIds |-> NoTables]
    /\ rg_who = 0
    /\ PackIdle
    /\ ChunkIdle
    /\ SectionIdle
    /\ PlaceIdle

\* region = Region(file_path), kept for the rest of the run
TwoNewRegion(r) ==
    \E p \in TwoPaths :
        /\ ~Live(r)
        /\ ~Region_init_raises(disk[p])
        /\ regions' = [regions EXCEPT ![r] = Region_init(p, disk[p])]
        /\ rg_open' = [rg_open EXCEPT ![r] = TablesOf(Region_init(p, disk[p]))]
        /\ rg_last' = "-"
        /\ rg_arg' = <<>>
        /\ rg_who' = r
        /\ rg_log' = <<>>
        /\ UNCHANGED <<placeVars, disk, clock, rg_written, packVars, chunkVars, sectionVars>>

\* region.get_chunk(rx, rz)
TwoGetChunk(r) ==
    \E c \in ChunkCoords :
        /\ Live(r)
        /\ LET got == Region_get_chunk(regions[r], disk[regions[r].file_path], c[1], c[2])
           IN /\ regions' = [regions EXCEPT ![r] = got.self]
              /\ rg_last' = IF got.raised THEN "get_chunk raised" ELSE "get_chunk"
        /\ rg_arg' = c
        /\ rg_who' = r
        /\ rg_log' = <<>>
        /\ UNCHANGED <<placeVars, disk, clock, rg_written, rg_open, packVars, chunkVars, sectionVars>>

\* region.save()
TwoSave(r) ==
    /\ Live(r)
    /\ clock <= MaxSaves
    /\ LET saved == Region_save(regions[r], disk[regions[r].file_path], clock)
       IN /\ saved.file.len <= MaxFileSectors * SECTOR_SIZE
          /\ regions' = [regions EXCEPT ![r] = saved.self]
          /\ disk' = [disk EXCEPT ![regions[r].file_path] = saved.file]
          /\ rg_log' = saved.log
          /\ rg_written' = [rg_written EXCEPT ![regions[r].file_path] =
                                @ \cup {saved.log[k].index : k \in 1 .. Len(saved.log)}]
    /\ clock' = clock + 1
    /\ rg_last' = "save"
    /\ rg_arg' = <<>>
    /\ rg_who' = r
    /\ UNCHANGED <<placeVars, rg_open, packVars, chunkVars, sectionVars>>

NextTwo ==
    \E r \in TwoIds : TwoNewRegion(r) \/ TwoGetChunk(r) \/ TwoSave(r)

SpecTwo == InitTwo /\ [][NextTwo]_vars

\* the step is a save() of Region r
IsSaveOf(r) == rg_last' = "save" /\ clock' # clock /\ rg_who' = r

\* C28: a save() writes both tables from the saving object's own arrays: in
\* the file it leaves, every slot the object has not cached has the entry and
\* the timestamp the object read at open, whatever another object on the same
\* file has saved since; a call on a Region changes no file but its own and
\* no other Region object
C28_SaveRewritesHeaderFromOwnTables ==
    [][\A r \in TwoIds :
          /\ IsSaveOf(r) =>
                LET p == regions[r].file_path
                IN /\ disk'[p].loc = regions'[r].locations
                   /\ disk'[p].ts = regions'[r].timestamps
                   /\ \A i \in Slots \ DOMAIN regions[r].chunks :
                         /\ disk'[p].loc[i] = rg_open[r].loc[i]
                         /\ disk'[p].ts[i] = rg_open[r].ts[i]
          /\ (rg_who' = r /\ Live(r)) =>
                /\ \A q \in TwoPaths \ {regions[r].file_path} : disk'[q] = disk[q]
                /\ \A o \in TwoIds \ {r} : regions'[o] = regions[o]]_vars

\* two objects were opened on one existing file; the first cached chunk
\* (31, 31) and saved it, then the second, which cached only chunk (0, 0),
\* saved: slot 1023 has a payload written but its entry and timestamp in the
\* file are the zeros the second object read at open, while the first object
\* still holds the entry it wrote
C28_Witness ==
    /\ rg_last = "save"
    /\ rg_who = 2
    /\ Live(1) /\ Live(2)
    /\ regions[1].file_path = regions[2].file_path
    /\ regions[2].file_exists
    /\ DOMAIN regions[1].chunks = {1023}
    /\ DOMAIN regions[2].chunks = {0}
    /\ 1023 \in rg_written[regions[2].file_path]
    /\ regions[1].locations[1023] # 0
    /\ rg_open[2].loc[1023] = 0
    /\ disk[regions[2].file_path].loc[1023] = 0
    /\ disk[regions[2].file_path].ts[1023] = 0

(***************************************************************************)
(* SpecLarge: one Region object at a time on one file, with chunks whose   *)
(* compressed NBT grows to the size where the sector count of the payload  *)
(* reaches and passes the largest value the count byte of a location entry *)
(* can hold.                                                               *)
(***************************************************************************)
MaxLargeSaves == 2

\* the largest sector count one byte holds
MaxCount == 255

\* compressed lengths: with the 5-byte header MaxCount sectors to the last
\* byte, and one byte more
LargeChunkLens == {(MaxCount * SECTOR_SIZE) - 5, (MaxCount * SECTOR_SIZE) - 4}

InitLarge ==
    /\ disk \in [Paths -> {NoFile, StoredFile(2)}]
    /\ regions = [r \in RegionIds |-> NoRegion]
    /\ clock = 1
    /\ rg_last = "-"
    /\ rg_arg = <<>>
    /\ rg_log = <<>>
    /\ rg_written = [p \in Paths |-> {i \in Slots : disk[p].loc[i] # 0}]
    /\ rg_open = [r \in RegionIds |-> NoTables]
    /\ rg_who = 0
    /\ PackIdle
    /\ ChunkIdle
    /\ SectionIdle
    /\ PlaceIdle

\* region = Region(file_path)
LargeNewRegion(r) ==
    \E p \in Paths :
        /\ ~Live(r)
        /\ ~Region_init_raises(disk[p])
        /\ regions' = [regions EXCEPT ![r] = Region_init(p, disk[p])]
        /\ rg_open' = [rg_open EXCEPT ![r] = TablesOf(Region_init(p, disk[p]))]
        /\ rg_last' = "-"
        /\ rg_arg' = <<>>
        /\ rg_who' = r
        /\ rg_log' = <<>>
        /\ UNCHANGED <<placeVars, disk, clock, rg_written, packVars, chunkVars, sectionVars>>

\* region.get_chunk(rx, rz)
LargeGetChunk(r) ==
    \E c \in ChunkCoords :
        /\ Live(r)
        /\ LET got == Region_get_chunk(regions[r], disk[regions[r].file_path], c[1], c[2])
           IN /\ regions' = [regions EXCEPT ![r] = got.self]
              /\ rg_last' = IF got.raised THEN "get_chunk raised" ELSE "get_chunk"
        /\ rg_arg' = c
        /\ rg_who' = r
        /\ rg_log' = <<>>
        /\ UNCHANGED <<placeVars, disk, clock, rg_written, rg_open, packVars, chunkVars, sectionVars>>

\* set_block calls on a cached chunk that bring its payload to a large length
LargeSetBlocks(r) ==
    \E clen \in LargeChunkLens :
        /\ Live(r)
        /\ \E index \in DOMAIN regions[r].chunks :
              /\ regions[r].chunks[index].clen # clen
              /\ regions' = [regions EXCEPT ![r].chunks[index].clen = clen]
        /\ rg_last' = "-"
        /\ rg_arg' = <<>>
        /\ rg_who' = r
        /\ rg_log' = <<>>
        /\ UNCHANGED <<placeVars, disk, clock, rg_written, rg_open, packVars, chunkVars, sectionVars>>

\* region.save()
LargeSave(r) ==
    /\ Live(r)
    /\ clock <= MaxLargeSaves
    /\ LET saved == Region_save(regions[r], disk[regions[r].file_path], clock)
       IN /\ regions' = [regions EXCEPT ![r] = saved.self]
          /\ disk' = [disk EXCEPT ![regions[r].file_path] = saved.file]
          /\ rg_log' = saved.log
          /\ rg_written' = [rg_written EXCEPT ![regions[r].file_path] =
                                @ \cup {saved.log[k].index : k \in 1 .. Len(saved.log)}]
    /\ clock' = clock + 1
    /\ rg_last' = "save"
    /\ rg_arg' = <<>>
    /\ rg_who' = r
    /\ UNCHANGED <<placeVars, rg_open, packVars, chunkVars, sectionVars>>

\* the Region object is dropped
LargeDiscard(r) ==
    /\ Live(r)
    /\ regions' = [regions EXCEPT ![r] = NoRegion]
    /\ rg_open' = [rg_open EXCEPT ![r] = NoTables]
    /\ rg_last' = "-"
    /\ rg_arg' = <<>>
    /\ rg_who' = r
    /\ rg_log' = <<>>
    /\ UNCHANGED <<placeVars, disk, clock, rg_written, packVars, chunkVars, sectionVars>>

NextLarge ==
    \E r \in RegionIds :
        \/ LargeNewRegion(r) \/ LargeGetChunk(r) \/ LargeSetBlocks(r)
        \/ LargeSave(r) \/ LargeDiscard(r)

SpecLarge == InitLarge /\ [][NextLarge]_vars

\* C25: when save() has returned, every chunk it wrote has a location entry
\* that decodes to what was written: entry >> 8 is the sector the payload
\* starts at, entry & 0xFF is ceil(total_length / 4096), the count is <= 255
\* and the offset < 2^24; a payload of more than 255 sectors is not stored
\* under an entry with other offset or count bits
C25_EntryDecodesToWhatWasWritten ==
    rg_last = "save" =>
        \A r \in RegionIds : Live(r) =>
            \A k \in 1 .. Len(rg_log) :
                LET w == rg_log[k]
                    total_length == regions[r].chunks[w.index].clen + 5
                IN /\ w.sectors_needed * SECTOR_SIZE >= total_length
                   /\ (w.sectors_needed - 1) * SECTOR_SIZE < total_length
                   /\ OffsetOf(w.entry) = w.new_offset
                   /\ CountOf(w.entry) = w.sectors_needed
                   /\ CountOf(w.entry) <= MaxCount
                   /\ OffsetOf(w.entry) < 2 ^ 24
                   /\ regions[r].locations[w.index] = w.entry
                   /\ disk[regions[r].file_path].loc[w.index] = w.entry

(***************************************************************************)
(* SpecPlace: the placement path of src/src/anvil_place.py.  run() groups  *)
(* the placements by the region of their position and calls process_region *)
(* once per region; process_region opens the region file, samples the      *)
(* ground at each placement and sets the blocks of the structure one by    *)
(* one, then saves.  A region file is kept as the chunk tags it holds, by  *)
(* slot; the files that exist hold no chunk at the start.                  *)
(***************************************************************************)
MaxRegionRuns == 2

\* meta['minecraft']['height_mapping']['sea_level_y']
SeaLevel == 62

\* rx = px >> 9 (lines 290-291)
RegionCoord(p) == p \div 512

\* (w >> 4) & 31 (lines 331-336 and 380-381)
RegionLocalChunk(w) == (w \div 16) % 32

\* w & 15 (lines 339-340 and 386-387)
ChunkLocalBlock(w) == w % 16

\* the placements of placements.yaml, as <<x, z>>
Placements == {<<5, 5>>, <<510, 5>>, <<520, 5>>, <<-1, -1>>, <<5, 520>>}

\* the regions whose file exists under world/region
RegionFiles == {<<0, 0>>, <<1, 0>>, <<-1, -1>>}

\* list(schematic.get_blocks()): <<sx, sy, sz, block_tag>>
StructureBlocks ==
    <<<<0, 0, 0, Stone>>, <<2, 0, 0, Stone>>, <<0, 1, 2, StairsAB>>, <<0, 300, 0, Stone>>>>

\* key = (rx, rz) of run()
RegionOfPlacement(item) == <<RegionCoord(item[1]), RegionCoord(item[2])>>

\* the task lists run() hands to process_region: placements of one region
TaskLists ==
    {<<a>> : a \in Placements}
        \cup {t \in Placements \X Placements :
                 RegionOfPlacement(t[1]) = RegionOfPlacement(t[2])}

\* Region.get_chunk on a Region whose file holds the tags `stored`: the
\* cache after the call (rx and rz are in 0..31 here)
Placer_get_chunk(chunks, stored, rx, rz) ==
    LET index == SlotOf(rx, rz)
        chunk == IF index \in DOMAIN stored THEN Chunk_from_nbt(stored[index])
                 ELSE NewChunk(rx, rz)
    IN IF index \in DOMAIN chunks THEN chunks
       ELSE [i \in DOMAIN chunks \cup {index} |-> IF i = index THEN chunk ELSE chunks[i]]

\* lines 347-353: the height the structure is placed at
WorldY(ground_y, offset) ==
    IF ground_y <= -60 THEN SeaLevel + 1 ELSE ground_y + 1 + offset

\* Region.save: a tag is written for every cached chunk, the others stay
SavedTags(stored, chunks) ==
    [i \in DOMAIN stored \cup DOMAIN chunks |->
        IF i \in DOMAIN chunks THEN Chunk_to_nbt(chunks[i]) ELSE stored[i]]

InitPlace ==
    /\ pl_stored = [g \in RegionFiles |-> NoTags]
    /\ pl_region = <<>>
    /\ pl_chunks = <<>>
    /\ pl_tasks = <<>>
    /\ pl_vals = <<>>
    /\ pl_anchor = <<>>
    /\ pl_modified = FALSE
    /\ pl_last = <<>>
    /\ pl_runs = 0
    /\ PackIdle
    /\ ChunkIdle
    /\ SectionIdle
    /\ RegionIdle

\* self.process_region(rx, rz, tasks) up to region = anvil.Region(...); a
\* region without a file is skipped
PlProcessRegion ==
    \E tasks \in TaskLists :
        /\ pl_region = <<>>
        /\ pl_runs < MaxRegionRuns
        /\ LET g == RegionOfPlacement(tasks[1])
           IN IF g \in RegionFiles
              THEN pl_region' = g /\ pl_tasks' = tasks
              ELSE pl_region' = <<>> /\ pl_tasks' = <<>>
        /\ pl_chunks' = <<>>
        /\ pl_vals' = <<>>
        /\ pl_anchor' = <<>>
        /\ pl_modified' = FALSE
        /\ pl_last' = <<>>
        /\ pl_runs' = pl_runs + 1
        /\ UNCHANGED <<pl_stored, packVars, chunkVars, sectionVars, regionVars>>

\* lines 318-364: the next placement of the region: the ground is sampled in
\* the chunk of the placement and the blocks of the structure are listed
PlTask ==
    /\ pl_region # <<>>
    /\ pl_vals = <<>>
    /\ pl_tasks # <<>>
    /\ LET wx == Head(pl_tasks)[1]
           wz == Head(pl_tasks)[2]
           rcx == RegionLocalChunk(wx)
           rcz == RegionLocalChunk(wz)
           chunks == Placer_get_chunk(pl_chunks, pl_stored[pl_region], rcx, rcz)
           ground_y == Chunk_get_highest_block(chunks[SlotOf(rcx, rcz)],
                                               ChunkLocalBlock(wx), ChunkLocalBlock(wz))
       IN /\ pl_chunks' = chunks
          /\ pl_anchor' = <<wx, WorldY(ground_y, 0), wz>>
    /\ pl_tasks' = Tail(pl_tasks)
    /\ pl_vals' = StructureBlocks
    /\ pl_last' = <<>>
    /\ UNCHANGED <<pl_stored, pl_region, pl_modified, pl_runs,
                   packVars, chunkVars, sectionVars, regionVars>>

\* lines 366-394: one block of the structure
PlBlock ==
    /\ pl_vals # <<>>
    /\ LET abs_x == pl_anchor[1] + Head(pl_vals)[1]
           abs_y == pl_anchor[2] + Head(pl_vals)[2]
           abs_z == pl_anchor[3] + Head(pl_vals)[3]
           cx == RegionLocalChunk(abs_x)
           cz == RegionLocalChunk(abs_z)
           lx == ChunkLocalBlock(abs_x)
           lz == ChunkLocalBlock(abs_z)
           chunks == Placer_get_chunk(pl_chunks, pl_stored[pl_region], cx, cz)
       IN IF abs_y < -64 \/ abs_y > 319
          THEN /\ pl_last' = <<>>
               /\ UNCHANGED <<pl_chunks, pl_modified>>
          ELSE /\ pl_chunks' = [chunks EXCEPT ![SlotOf(cx, cz)] =
                                   Chunk_set_block(@, lx, abs_y, lz, Head(pl_vals)[4])]
               /\ pl_modified' = TRUE
               /\ pl_last' = [abs |-> <<abs_x, abs_y, abs_z>>,
                              region |-> pl_region,
                              chunk |-> <<cx, cz>>,
                              local |-> <<lx, abs_y, lz>>]
    /\ pl_vals' = Tail(pl_vals)
    /\ UNCHANGED <<pl_stored, pl_region, pl_tasks, pl_anchor, pl_runs,
                   packVars, chunkVars, sectionVars, regionVars>>

\* lines 396-399: region.save() when a block was set; process_region returns
PlSave ==
    /\ pl_region # <<>>
    /\ pl_vals = <<>>
    /\ pl_tasks = <<>>
    /\ pl_stored' = IF pl_modified
                    THEN [pl_stored EXCEPT ![pl_region] = SavedTags(@, pl_chunks)]
                    ELSE pl_stored
    /\ pl_region' = <<>>
    /\ pl_chunks' = <<>>
    /\ pl_anchor' = <<>>
    /\ pl_modified' = FALSE
    /\ pl_last' = <<>>
    /\ UNCHANGED <<pl_tasks, pl_vals, pl_runs,
                   packVars, chunkVars, sectionVars, regionVars>>

NextPlace == PlProcessRegion \/ PlTask \/ PlBlock \/ PlSave

SpecPlace == InitPlace /\ [][NextPlace]_vars

\* C24: a block the placement path sets at world (x, y, z) is set in region
\* (x >> 9, z >> 9), in chunk ((x >> 4) & 31, (z >> 4) & 31) of that region,
\* at chunk-local (x & 15, y, z & 15)
C24_BlockGoesToItsRegion ==
    pl_last # <<>> =>
        LET x == pl_last.abs[1]
            y == pl_last.abs[2]
            z == pl_last.abs[3]
        IN /\ pl_last.chunk = <<(x \div 16) % 32, (z \div 16) % 32>>
           /\ pl_last.local = <<x % 16, y, z % 16>>
           /\ pl_last.region = <<x \div 512, z \div 512>>

\* C27: every chunk tag the placement path has saved, all of them made from
\* chunks get_chunk created, has in xPos/zPos the world chunk coordinates of
\* its slot: (32*region_x + local_x, 32*region_z + local_z)
C27_SavedChunkHasWorldCoords ==
    \A g \in DOMAIN pl_stored :
        \A i \in DOMAIN pl_stored[g] :
            /\ pl_stored[g][i].xPos = (32 * g[1]) + (i % 32)
            /\ pl_stored[g][i].zPos = (32 * g[2]) + (i \div 32)

=============================================================================
